---- MODULE Spec2Model ----
(***************************************************************************)
(* A model of the chunking engine of tomm-202509 (src/src/chunker): the    *)
(* token counter, the four chunking strategies, the per-strategy result    *)
(* wrapper and the pipeline (single document and process-parallel batch).  *)
(*                                                                         *)
(* Texts are sequences of one-character strings; positions are 0-based as  *)
(* in the Python source.  An operation that may raise returns a record     *)
(* with field ok: [ok |-> TRUE, val |-> v] or [ok |-> FALSE, err |-> msg]. *)
(* Messages are sequences of strings (the parts an f-string concatenates). *)
(* Wall-clock fields (processing_time, memory_usage_mb, created_at) are    *)
(* left out of the records: no operation of the engine reads them.         *)
(***************************************************************************)
EXTENDS Integers, Sequences, FiniteSets, TLC

\* ------------------------------------------------------------------------
\* Generic helpers on sequences (Python str / list operations)
\* ------------------------------------------------------------------------

Min(a, b) == IF a <= b THEN a ELSE b

Max(a, b) == IF a >= b THEN a ELSE b

\* str.isspace() on the characters of the model's alphabet
IsSpace(c) == c \in {" ", "\n", "\t"}

\* Python slice s[a:b] for 0 <= a (b is clipped to len(s))
Slice(s, a, b) == SubSeq(s, a + 1, Min(b, Len(s)))

\* The indices of a sequence, in order
Indices(s) == [i \in 1..Len(s) |-> i]

\* str.strip(): from the first to the last non-whitespace character
Strip(s) ==
    LET solid == SelectSeq(Indices(s), LAMBDA i : ~IsSpace(s[i]))
    IN  IF solid = <<>> THEN <<>> ELSE SubSeq(s, solid[1], solid[Len(solid)])

\* str.split(): the maximal runs of non-whitespace characters, in order
Split(s) ==
    LET starts == SelectSeq(Indices(s),
                      LAMBDA i : ~IsSpace(s[i]) /\ (i = 1 \/ IsSpace(s[i - 1])))
        ends == SelectSeq(Indices(s),
                      LAMBDA i : ~IsSpace(s[i]) /\ (i = Len(s) \/ IsSpace(s[i + 1])))
    IN  [k \in 1..Len(starts) |-> SubSeq(s, starts[k], ends[k])]

\* sep.join(parts)
RECURSIVE Join(_, _)
Join(parts, sep) ==
    IF parts = <<>> THEN <<>>
    ELSE IF Len(parts) = 1 THEN parts[1]
    ELSE parts[1] \o sep \o Join(Tail(parts), sep)

\* s.startswith(pat) at 0-based offset i
MatchAt(s, pat, i) ==
    /\ i + Len(pat) <= Len(s)
    /\ \A k \in 1..Len(pat) : s[i + k] = pat[k]

\* str.find(pat): the least 0-based index of an occurrence, -1 when none
Find(s, pat) ==
    IF \E i \in 0..Len(s) : MatchAt(s, pat, i)
    THEN CHOOSE i \in 0..Len(s) :
             MatchAt(s, pat, i) /\ \A j \in 0..(i - 1) : ~MatchAt(s, pat, j)
    ELSE -1

RECURSIVE SumSeq(_)
SumSeq(xs) == IF xs = <<>> THEN 0 ELSE Head(xs) + SumSeq(Tail(xs))

MinSeq(xs) == CHOOSE x \in {xs[i] : i \in 1..Len(xs)} :
                  \A i \in 1..Len(xs) : x <= xs[i]

MaxSeq(xs) == CHOOSE x \in {xs[i] : i \in 1..Len(xs)} :
                  \A i \in 1..Len(xs) : x >= xs[i]

RECURSIVE Gcd(_, _)
Gcd(a, b) == IF b = 0 THEN a ELSE Gcd(b, a % b)

\* A Python float that is a quotient of two naturals, as a fraction in
\* lowest terms; 0 is <<0, 1>>.
Ratio(n, d) == LET g == Gcd(n, d) IN IF n = 0 THEN <<0, 1>> ELSE <<n \div g, d \div g>>

\* ------------------------------------------------------------------------
\* utils.clean_text
\* ------------------------------------------------------------------------

\* re.sub(r'\s+', ' ', text): every maximal whitespace run becomes one space
CollapseSpaces(s) ==
    LET kept == SelectSeq(Indices(s),
                    LAMBDA i : ~IsSpace(s[i]) \/ i = 1 \/ ~IsSpace(s[i - 1]))
    IN  [k \in 1..Len(kept) |-> IF IsSpace(s[kept[k]]) THEN " " ELSE s[kept[k]]]

\* re.sub(r'\.{3,}', '...', text) and re.sub(r'-{2,}', '--', text): a run of
\* more than `keep` characters c is cut to its first `keep` characters
SquashRuns(s, c, keep) ==
    LET kept == SelectSeq(Indices(s),
                    LAMBDA i : ~(s[i] = c /\ i > keep
                                 /\ \A k \in 1..keep : s[i - k] = c))
    IN  [k \in 1..Len(kept) |-> s[kept[k]]]

clean_text(text) ==
    IF text = <<>> THEN <<>>
    ELSE LET t1 == Strip(CollapseSpaces(text))
         IN  SquashRuns(SquashRuns(t1, ".", 3), "-", 2)

\* ------------------------------------------------------------------------
\* The process environment: which optional libraries can be imported and
\* whether their calls succeed.  It is fixed for the life of a process.
\*   tokenizer : "absent"        import tiktoken raises ImportError
\*               "acquire_fails" tiktoken.get_encoding raises (not ImportError)
\*               "encode_fails"  the encoding is acquired, encode raises
\*               "ok"
\*   embedder  : the same four cases for sentence_transformers
\*   splitter  : for each delegated splitter class, "absent" (ImportError)
\*               or "raises" (the class is there and its call raises); for
\*               TokenTextSplitter and SemanticChunker also "returns" (the
\*               call returns chunks)
\* ------------------------------------------------------------------------

TokenizerStates == {"absent", "acquire_fails", "encode_fails", "ok"}

EmbedderStates == {"absent", "acquire_fails", "encode_fails", "ok"}

SplitterClasses == {"TokenTextSplitter", "RecursiveCharacterTextSplitter", "SemanticChunker"}

\* str(e) of the exceptions raised by the external libraries
TokenizerAcquireError == <<"Unknown encoding">>

EmbedderAcquireError == <<"model not found">>

SplitterError == <<"splitter failed">>

\* ------------------------------------------------------------------------
\* base.TokenCounter.  The object's state is _encoder: "None" before the
\* first acquisition, then "fallback" or "encoder".
\* ------------------------------------------------------------------------

\* The length of encoder.encode(text): the external tokenizer, modelled as
\* the byte-level encoding (one token id per character).
EncodeLen(text) == Len(text)

\* A variant of the estimate that never goes below one token
WordCountAtLeastOne(text) == Max(1, (Len(Split(text)) * 3) \div 4)

\* Python's round(n / d) for naturals n and d > 0: to the nearest integer,
\* a half to the even one
PyRound(n, d) ==
    IF 2 * (n % d) < d THEN n \div d
    ELSE IF 2 * (n % d) > d THEN n \div d + 1
    ELSE IF (n \div d) % 2 = 0 THEN n \div d
    ELSE n \div d + 1

\* A variant of the estimate that rounds to the nearest integer
WordCountRounded(text) == PyRound(Len(Split(text)) * 3, 4)

\* int(len(text.split()) * 0.75): 0.75 is exact in binary floating point and
\* int() truncates a non-negative float downwards.
WordCountEstimate(text) == (Len(Split(text)) * 3) \div 4

\* A variant of the encoder property that gives up a cached encoder: from
\* the second use on, the counter estimates from words.
EncoderDroppingCache(enc, tokenizer) ==
    IF enc # "None" THEN [ok |-> TRUE, val |-> "fallback", st |-> "fallback"]
    ELSE IF tokenizer = "absent"
         THEN [ok |-> TRUE, val |-> "fallback", st |-> "fallback"]
    ELSE IF tokenizer = "acquire_fails"
         THEN [ok |-> FALSE, err |-> TokenizerAcquireError, st |-> "None"]
    ELSE [ok |-> TRUE, val |-> "encoder", st |-> "encoder"]

\* The encoder property.  val is the value returned, st the new _encoder.
Encoder(enc, tokenizer) ==
    IF enc # "None" THEN [ok |-> TRUE, val |-> enc, st |-> enc]
    ELSE IF tokenizer = "absent"
         THEN [ok |-> TRUE, val |-> "fallback", st |-> "fallback"]
    ELSE IF tokenizer = "acquire_fails"
         THEN [ok |-> FALSE, err |-> TokenizerAcquireError, st |-> "None"]
    ELSE [ok |-> TRUE, val |-> "encoder", st |-> "encoder"]

count_tokens(enc, tokenizer, text) ==
    LET Counted(e) ==
            IF ~e.ok THEN e
            ELSE [ok |-> TRUE, st |-> e.st,
                  val |-> IF e.val = "fallback" \/ tokenizer = "encode_fails"
                          THEN WordCountEstimate(text) ELSE EncodeLen(text)]
    IN  Counted(Encoder(enc, tokenizer))

\* ------------------------------------------------------------------------
\* base.ChunkingStrategy: validation, chunk ids, the chunk-building loop
\* ------------------------------------------------------------------------

\* A variant of the validation that looks at the document_id only
ValidateIdOnly(doc) == doc.document_id # ""

\* A variant of the validation that looks at the text only
ValidateTextOnly(doc) ==
    IF doc.full_text = <<>> \/ Strip(doc.full_text) = <<>> THEN FALSE
    ELSE TRUE

\* not document.full_text or not document.full_text.strip() -> False;
\* not document.document_id -> False
validate_document(doc) ==
    IF doc.full_text = <<>> \/ Strip(doc.full_text) = <<>> THEN FALSE
    ELSE IF doc.document_id = "" THEN FALSE
    ELSE TRUE

RECURSIVE Digits(_)
Digits(n) == IF n < 10 THEN <<n>> ELSE Append(Digits(n \div 10), n % 10)

\* format(chunk_index, "03d"): at least three digits, zero padded
Pad3(n) == LET d == Digits(n)
           IN  IF Len(d) >= 3 THEN d ELSE [k \in 1..(3 - Len(d)) |-> 0] \o d

\* f"{document_id}_{self.strategy_name}_{chunk_index:03d}"
generate_chunk_id(strategy_name, document_id, chunk_index) ==
    <<document_id, "_", strategy_name, "_", Pad3(chunk_index)>>

ValidationError(doc) == <<"Document validation failed for ", doc.document_id>>

\* raise ChunkingError(message, strategy_name=..., document_id=...): the
\* exception carries both, and str(e) is the message
ChunkingError(message, strategy_name, document_id, st) ==
    [ok |-> FALSE, err |-> message, st |-> st,
     strategy_name |-> strategy_name, document_id |-> document_id]

\* for i, chunk_text in enumerate(chunks): ... count_tokens(chunk_text) ...
\* The token counts of the chunk texts, in order: the token counter's state
\* is threaded through the calls and a raising count_tokens ends the loop.
RECURSIVE CountAll(_, _, _, _, _)
CountAll(texts, i, enc, tokenizer, acc) ==
    IF i > Len(texts) THEN [ok |-> TRUE, val |-> acc, st |-> enc]
    ELSE LET Counted(t) ==
                 IF ~t.ok THEN [ok |-> FALSE, err |-> t.err, st |-> t.st]
                 ELSE CountAll(texts, i + 1, t.st, tokenizer, Append(acc, t.val))
         IN  Counted(count_tokens(enc, tokenizer, texts[i]))

\* A strategy object's mutable state: the token counter's _encoder and, for
\* the semantic strategy, _embedder ("None", "fallback" or "model").
FreshState == [enc |-> "None", emb |-> "None"]

\* models.DocumentChunk (created_at left out)
DocumentChunk(chunk_id, document_id, strategy_name, content, start_position, end_position, token_count, metadata, elements) ==
    [chunk_id |-> chunk_id, document_id |-> document_id,
     strategy_name |-> strategy_name, content |-> content,
     start_position |-> start_position, end_position |-> end_position,
     token_count |-> token_count, metadata |-> metadata, elements |-> elements]

\* raise ChunkingError(f"{prefix}{str(e)}") out of a strategy's try block
Wrapped(prefix, r) == [ok |-> FALSE, err |-> <<prefix>> \o r.err, st |-> r.st]

\* ------------------------------------------------------------------------
\* strategies/fixed_size.py
\* ------------------------------------------------------------------------

\* FixedSizeChunker.__init__: the configuration check
FixedSizeInit(p) ==
    IF p.chunk_size <= 0
    THEN [ok |-> FALSE, err |-> <<"chunk_size must be positive">>]
    ELSE IF p.chunk_overlap < 0
    THEN [ok |-> FALSE, err |-> <<"chunk_overlap cannot be negative">>]
    ELSE IF p.chunk_overlap >= p.chunk_size
    THEN [ok |-> FALSE, err |-> <<"chunk_overlap must be less than chunk_size">>]
    ELSE [ok |-> TRUE, val |-> p]

\* max(1, len(word) // 4)
WordTokens(word) == Max(1, Len(word) \div 4)

RECURSIVE SumWordTokens(_)
SumWordTokens(ws) ==
    IF ws = <<>> THEN 0 ELSE WordTokens(Head(ws)) + SumWordTokens(Tail(ws))

\* current_chunk[-n:] for n > 0
LastN(xs, n) == SubSeq(xs, Max(1, Len(xs) - n + 1), Len(xs))

\* The loop of FixedSizeChunker._fallback_split_text over words[i..]
RECURSIVE FixedLoop(_, _, _, _, _, _, _)
FixedLoop(words, i, chunk_size, chunk_overlap, chunks, current_chunk, current_tokens) ==
    IF i > Len(words)
    THEN (IF current_chunk # <<>>
          THEN Append(chunks, Join(current_chunk, <<" ">>)) ELSE chunks)
    ELSE LET word == words[i]
             word_tokens == WordTokens(word)
         IN  IF current_tokens + word_tokens > chunk_size /\ current_chunk # <<>>
             THEN LET done == Append(chunks, Join(current_chunk, <<" ">>))
                      next == IF chunk_overlap > 0
                              THEN Append(LastN(current_chunk, chunk_overlap), word)
                              ELSE <<word>>
                      toks == IF chunk_overlap > 0 THEN SumWordTokens(next)
                              ELSE word_tokens
                  IN  FixedLoop(words, i + 1, chunk_size, chunk_overlap,
                                done, next, toks)
             ELSE FixedLoop(words, i + 1, chunk_size, chunk_overlap, chunks,
                            Append(current_chunk, word),
                            current_tokens + word_tokens)

FixedFallbackSplitText(p, text) ==
    LET words == Split(text)
    IN  IF words = <<>> THEN <<>>
        ELSE FixedLoop(words, 1, p.chunk_size, p.chunk_overlap, <<>>, <<>>, 0)

\* TokenTextSplitter(chunk_size, chunk_overlap, encoding_name).split_text(text),
\* the external splitter: it encodes the text, takes windows of chunk_size
\* token ids that advance by chunk_size - chunk_overlap, and decodes each
\* window.  Under the byte-level encoding a token id is a character.
RECURSIVE TokenTextSplitter(_, _, _, _, _)
TokenTextSplitter(text, chunk_size, chunk_overlap, start_idx, splits) ==
    LET cur_idx == Min(start_idx + chunk_size, Len(text))
        out == Append(splits, Slice(text, start_idx, cur_idx))
    IN  IF cur_idx >= Len(text) THEN out
        ELSE TokenTextSplitter(text, chunk_size, chunk_overlap,
                               start_idx + chunk_size - chunk_overlap, out)

\* FixedSizeChunker._split_text_by_tokens
FixedSplitTextByTokens(p, env, text) ==
    IF env.splitter["TokenTextSplitter"] = "absent"
    THEN [ok |-> TRUE, val |-> FixedFallbackSplitText(p, text)]
    ELSE IF env.splitter["TokenTextSplitter"] = "returns"
    THEN [ok |-> TRUE,
          val |-> TokenTextSplitter(text, p.chunk_size, p.chunk_overlap, 0, <<>>)]
    ELSE [ok |-> FALSE, err |-> SplitterError]

FixedMetadata(i) ==
    ("chunk_index" :> i) @@ ("total_chunks" :> 0) @@ ("strategy_config" :> "fixed_size")

\* FixedSizeChunker._create_document_chunk
FixedCreateChunk(p, doc, chunk_text, chunk_index, token_count) ==
    LET start_pos == chunk_index * (p.chunk_size - p.chunk_overlap)
        end_pos == start_pos + Len(chunk_text)
    IN  DocumentChunk(generate_chunk_id("fixed_size", doc.document_id, chunk_index),
                      doc.document_id, "fixed_size", chunk_text,
                      Max(0, start_pos), end_pos, token_count,
                      FixedMetadata(chunk_index), <<>>)

\* FixedSizeChunker.chunk_document
FixedChunkDocument(p, st, env, doc) ==
    IF ~validate_document(doc)
    THEN ChunkingError(ValidationError(doc), "fixed_size", doc.document_id, st)
    ELSE LET Built(chunks, counts) ==
                 IF ~counts.ok
                 THEN Wrapped("Fixed-size chunking failed: ",
                              [err |-> counts.err, st |-> [st EXCEPT !.enc = counts.st]])
                 ELSE [ok |-> TRUE,
                       val |-> [i \in 1..Len(chunks) |->
                                   FixedCreateChunk(p, doc, chunks[i], i - 1, counts.val[i])],
                       st |-> [st EXCEPT !.enc = counts.st]]
             Counted(split) ==
                 IF ~split.ok
                 THEN Wrapped("Fixed-size chunking failed: ", [err |-> split.err, st |-> st])
                 ELSE Built(split.val, CountAll(split.val, 1, st.enc, env.tokenizer, <<>>))
             Chunked(text) ==
                 IF text = <<>> THEN [ok |-> TRUE, val |-> <<>>, st |-> st]
                 ELSE Counted(FixedSplitTextByTokens(p, env, text))
         IN  Chunked(clean_text(doc.full_text))

\* ------------------------------------------------------------------------
\* strategies/sliding_langchain.py
\* ------------------------------------------------------------------------

ParagraphLookback == 100

\* SlidingLangChainChunker.__init__: the configuration check
SlidingInit(p) ==
    IF p.chunk_size <= 0
    THEN [ok |-> FALSE, err |-> <<"chunk_size must be positive">>]
    ELSE IF p.chunk_overlap < 0
    THEN [ok |-> FALSE, err |-> <<"chunk_overlap cannot be negative">>]
    ELSE IF p.chunk_overlap >= p.chunk_size
    THEN [ok |-> FALSE, err |-> <<"chunk_overlap must be less than chunk_size">>]
    ELSE [ok |-> TRUE, val |-> p]

\* One pass of the while loop of _fallback_split_text: the end of the window
\* that starts at current_pos
SlidingEndPos(text, chunk_size, current_pos) ==
    LET end_pos == Min(current_pos + chunk_size, Len(text))
    IN  IF end_pos < Len(text)
        THEN LET search_start == Max(end_pos - ParagraphLookback, current_pos)
                 remaining_text == Slice(text, search_start, end_pos + ParagraphLookback)
                 para_break == Find(remaining_text, <<"\n", "\n">>)
                 actual_end == search_start + para_break + 2
             IN  IF para_break # -1 /\ actual_end > current_pos + chunk_size \div 2
                 THEN actual_end ELSE end_pos
        ELSE end_pos

\* A variant of the loop whose next window starts one character after the
\* end of the current one
RECURSIVE SlidingLoopSkipping(_, _, _, _, _)
SlidingLoopSkipping(text, chunk_size, chunk_overlap, current_pos, chunks) ==
    IF ~(current_pos < Len(text)) THEN chunks
    ELSE LET end_pos == SlidingEndPos(text, chunk_size, current_pos)
             out == Append(chunks, Strip(Slice(text, current_pos, end_pos)))
         IN  IF end_pos >= Len(text) THEN out
             ELSE SlidingLoopSkipping(text, chunk_size, chunk_overlap,
                                      Max(current_pos + 1, end_pos + 1), out)

RECURSIVE SlidingLoop(_, _, _, _, _)
SlidingLoop(text, chunk_size, chunk_overlap, current_pos, chunks) ==
    IF ~(current_pos < Len(text)) THEN chunks
    ELSE LET end_pos == SlidingEndPos(text, chunk_size, current_pos)
             out == Append(chunks, Strip(Slice(text, current_pos, end_pos)))
         IN  IF end_pos >= Len(text) THEN out
             ELSE SlidingLoop(text, chunk_size, chunk_overlap,
                              Max(current_pos + 1, end_pos - chunk_overlap), out)

\* [chunk for chunk in chunks if chunk.strip()]
NonBlank(chunks) == SelectSeq(chunks, LAMBDA c : Strip(c) # <<>>)

\* The cursor of the while loop of _fallback_split_text: the (current_pos,
\* end_pos) of each pass, in order
RECURSIVE SlidingWindows(_, _, _, _, _)
SlidingWindows(text, chunk_size, chunk_overlap, current_pos, windows) ==
    IF ~(current_pos < Len(text)) THEN windows
    ELSE LET end_pos == SlidingEndPos(text, chunk_size, current_pos)
             out == Append(windows, <<current_pos, end_pos>>)
         IN  IF end_pos >= Len(text) THEN out
             ELSE SlidingWindows(text, chunk_size, chunk_overlap,
                                 Max(current_pos + 1, end_pos - chunk_overlap), out)

SlidingFallbackSplitText(p, text) ==
    NonBlank(SlidingLoop(text, p.chunk_size, p.chunk_overlap, 0, <<>>))

\* SlidingLangChainChunker._split_text_recursively
SlidingSplitTextRecursively(p, env, text) ==
    IF env.splitter["RecursiveCharacterTextSplitter"] = "absent"
    THEN [ok |-> TRUE, val |-> SlidingFallbackSplitText(p, text)]
    ELSE [ok |-> FALSE, err |-> SplitterError]

SlidingMetadata(p, i) ==
    ("chunk_index" :> i) @@ ("total_chunks" :> 0)
    @@ ("overlap_size" :> p.chunk_overlap)
    @@ ("strategy_config" :> [strategy_name |-> "sliding_langchain",
                              chunk_size |-> p.chunk_size,
                              chunk_overlap |-> p.chunk_overlap])

\* SlidingLangChainChunker._create_document_chunk
SlidingCreateChunk(p, doc, chunk_text, chunk_index, original_text, token_count) ==
    LET start_pos == IF chunk_index > 0
                     THEN chunk_index * (p.chunk_size - p.chunk_overlap) ELSE 0
        end_pos == start_pos + Len(chunk_text)
    IN  DocumentChunk(generate_chunk_id("sliding_langchain", doc.document_id, chunk_index),
                      doc.document_id, "sliding_langchain", chunk_text,
                      Max(0, start_pos), Min(end_pos, Len(original_text)),
                      token_count, SlidingMetadata(p, chunk_index), <<>>)

\* SlidingLangChainChunker.chunk_document
SlidingChunkDocument(p, st, env, doc) ==
    IF ~validate_document(doc)
    THEN ChunkingError(ValidationError(doc), "sliding_langchain", doc.document_id, st)
    ELSE LET Built(text, chunks, counts) ==
                 IF ~counts.ok
                 THEN Wrapped("Sliding LangChain chunking failed: ",
                              [err |-> counts.err, st |-> [st EXCEPT !.enc = counts.st]])
                 ELSE [ok |-> TRUE,
                       val |-> [i \in 1..Len(chunks) |->
                                   SlidingCreateChunk(p, doc, chunks[i], i - 1, text,
                                                      counts.val[i])],
                       st |-> [st EXCEPT !.enc = counts.st]]
             Counted(text, split) ==
                 IF ~split.ok
                 THEN Wrapped("Sliding LangChain chunking failed: ",
                              [err |-> split.err, st |-> st])
                 ELSE Built(text, split.val,
                            CountAll(split.val, 1, st.enc, env.tokenizer, <<>>))
             Chunked(text) ==
                 IF text = <<>> THEN [ok |-> TRUE, val |-> <<>>, st |-> st]
                 ELSE Counted(text, SlidingSplitTextRecursively(p, env, text))
         IN  Chunked(clean_text(doc.full_text))

\* ------------------------------------------------------------------------
\* Fallback to the sliding-window-on-text strategy and relabelling
\* (SemanticChunker._fallback_chunking, lines 373-378, and
\* SlidingUnstructuredChunker._fallback_text_chunking, lines 230-235)
\* ------------------------------------------------------------------------

\* list.index(x): the 0-based index of the first element equal to x
IndexOf(xs, x) ==
    (CHOOSE j \in 1..Len(xs) : xs[j] = x /\ \A k \in 1..(j - 1) : xs[k] # x) - 1

\* A variant of the relabelling that renames the strategy and keeps the
\* fallback chunker's chunk ids
RelabelKeepingIds(chunks, k, strategy_name, document_id) ==
    [i \in 1..Len(chunks) |-> [chunks[i] EXCEPT !.strategy_name = strategy_name]]

\* for chunk in chunks: chunk.strategy_name = name;
\*                      chunk.chunk_id = generate_chunk_id(id, chunks.index(chunk))
\* The list is relabelled in place, so index() searches a list whose first
\* k - 1 chunks already carry the new name and id.
RECURSIVE Relabel(_, _, _, _)
Relabel(chunks, k, strategy_name, document_id) ==
    IF k > Len(chunks) THEN chunks
    ELSE LET Identified(named) ==
                 [named EXCEPT ![k].chunk_id =
                     generate_chunk_id(strategy_name, document_id,
                                       IndexOf(named, named[k]))]
         IN  Relabel(Identified([chunks EXCEPT ![k].strategy_name = strategy_name]),
                     k + 1, strategy_name, document_id)

\* fallback_chunker = SlidingLangChainChunker(fallback_config);
\* chunks = fallback_chunker.chunk_document(document); relabel.
\* The fallback chunker is a new object on every call: its token counter
\* starts unacquired and is dropped afterwards.
FallbackToSliding(fallback_config, strategy_name, st, env, doc) ==
    LET Relabelled(r) ==
            IF ~r.ok THEN [ok |-> FALSE, err |-> r.err, st |-> st]
            ELSE [ok |-> TRUE, st |-> st,
                  val |-> Relabel(r.val, 1, strategy_name, doc.document_id)]
        Constructed(made) ==
            IF ~made.ok THEN [ok |-> FALSE, err |-> made.err, st |-> st]
            ELSE Relabelled(SlidingChunkDocument(fallback_config, FreshState, env, doc))
    IN  Constructed(SlidingInit(fallback_config))

\* ------------------------------------------------------------------------
\* strategies/semantic.py
\* ------------------------------------------------------------------------

FallbackChunkSizeCap == 1000

FallbackChunkOverlap == 200

PositionProbeLength == 100

PositionEstimateStride == 1000

\* A variant of the configuration check that accepts max_chunk_size equal to
\* min_chunk_size
SemanticInitAllowingEqual(p) ==
    IF p.similarity_threshold < 0 \/ p.similarity_threshold > 100
    THEN [ok |-> FALSE, err |-> <<"similarity_threshold must be between 0 and 1">>]
    ELSE IF p.min_chunk_size <= 0
    THEN [ok |-> FALSE, err |-> <<"min_chunk_size must be positive">>]
    ELSE IF p.max_chunk_size < p.min_chunk_size
    THEN [ok |-> FALSE, err |-> <<"max_chunk_size must be greater than min_chunk_size">>]
    ELSE [ok |-> TRUE, val |-> p]

\* SemanticChunker.__init__: the configuration check.  similarity_threshold
\* is held in hundredths (80 for 0.8).
SemanticInit(p) ==
    IF p.similarity_threshold < 0 \/ p.similarity_threshold > 100
    THEN [ok |-> FALSE, err |-> <<"similarity_threshold must be between 0 and 1">>]
    ELSE IF p.min_chunk_size <= 0
    THEN [ok |-> FALSE, err |-> <<"min_chunk_size must be positive">>]
    ELSE IF p.max_chunk_size <= p.min_chunk_size
    THEN [ok |-> FALSE, err |-> <<"max_chunk_size must be greater than min_chunk_size">>]
    ELSE [ok |-> TRUE, val |-> p]

\* The embedder property.  val is the value returned, st the new _embedder.
Embedder(emb, embedder) ==
    IF emb # "None" THEN [ok |-> TRUE, val |-> emb, st |-> emb]
    ELSE IF embedder = "absent"
         THEN [ok |-> TRUE, val |-> "fallback", st |-> "fallback"]
    ELSE IF embedder = "acquire_fails"
         THEN [ok |-> FALSE, err |-> EmbedderAcquireError, st |-> "None"]
    ELSE [ok |-> TRUE, val |-> "model", st |-> "model"]

SemanticFallbackConfig(p) ==
    [chunk_size |-> Min(p.max_chunk_size, FallbackChunkSizeCap),
     chunk_overlap |-> FallbackChunkOverlap]

\* SemanticChunker._fallback_chunking
SemanticFallbackChunking(p, st, env, doc) ==
    FallbackToSliding(SemanticFallbackConfig(p), "semantic", st, env, doc)

IsTerminator(c) == c \in {".", "!", "?"}

\* The first index from i on whose character is not a terminator / not
\* whitespace (Len(s) + 1 when there is none)
AfterTerminators(s, i) ==
    CHOOSE j \in i..(Len(s) + 1) :
        /\ j = Len(s) + 1 \/ ~IsTerminator(s[j])
        /\ \A k \in i..(j - 1) : IsTerminator(s[k])

AfterSpaces(s, i) ==
    CHOOSE j \in i..(Len(s) + 1) :
        /\ j = Len(s) + 1 \/ ~IsSpace(s[j])
        /\ \A k \in i..(j - 1) : IsSpace(s[k])

\* re.split(r'[.!?]+\s+', text): a separator is a maximal run of terminators
\* followed by a maximal, non-empty run of whitespace.  The pieces between
\* the separators, in order (empty pieces included).
ReSplitSentences(s) ==
    LET Pieces(seps) ==
            [k \in 1..(Len(seps) + 1) |->
                SubSeq(s,
                       IF k = 1 THEN 1
                       ELSE AfterSpaces(s, AfterTerminators(s, seps[k - 1])),
                       IF k = Len(seps) + 1 THEN Len(s) ELSE seps[k] - 1)]
    IN  Pieces(SelectSeq(Indices(s),
                   LAMBDA i : /\ IsTerminator(s[i])
                              /\ (i = 1 \/ ~IsTerminator(s[i - 1]))
                              /\ AfterSpaces(s, AfterTerminators(s, i))
                                     > AfterTerminators(s, i)))

\* SemanticChunker._split_into_sentences
SplitIntoSentences(text) ==
    LET Stripped(pieces) == [i \in 1..Len(pieces) |-> Strip(pieces[i])]
    IN  SelectSeq(Stripped(ReSplitSentences(text)), LAMBDA x : x # <<>>)

\* The loop of SemanticChunker._fallback_sentence_split over sentences[i..]
RECURSIVE SentenceLoop(_, _, _, _, _, _)
SentenceLoop(sentences, i, max_chunk_size, chunks, current_chunk, current_size) ==
    IF i > Len(sentences)
    THEN (IF current_chunk # <<>>
          THEN Append(chunks, Join(current_chunk, <<" ">>)) ELSE chunks)
    ELSE LET sentence == sentences[i]
             sentence_size == Len(sentence)
         IN  IF current_size + sentence_size > max_chunk_size /\ current_chunk # <<>>
             THEN SentenceLoop(sentences, i + 1, max_chunk_size,
                               Append(chunks, Join(current_chunk, <<" ">>)),
                               <<sentence>>, sentence_size)
             ELSE SentenceLoop(sentences, i + 1, max_chunk_size, chunks,
                               Append(current_chunk, sentence),
                               current_size + sentence_size)

FallbackSentenceSplit(p, sentences) ==
    SentenceLoop(sentences, 1, p.max_chunk_size, <<>>, <<>>, 0)

\* cosine_similarity of the embeddings of two sentences, in hundredths.  The
\* embedding model is external: it is modelled as mapping a sentence to the
\* unit vector of its first character, so two sentences are similar (100)
\* when they start alike and orthogonal (0) otherwise.
CosineSimilarity(a, b) == IF Head(a) = Head(b) THEN 100 ELSE 0

\* SemanticChunker._find_semantic_breakpoints: the indices i (1 <= i < n,
\* 0-based) with similarity(sentence i-1, sentence i) < threshold, ascending
FindSemanticBreakpoints(p, sentences) ==
    SelectSeq([i \in 1..(Len(sentences) - 1) |-> i],
              LAMBDA i : CosineSimilarity(sentences[i], sentences[i + 1])
                             < p.similarity_threshold)

\* The chunk-building loop of _manual_semantic_split (lines 243-259)
RECURSIVE BreakLoop(_, _, _, _, _)
BreakLoop(sentences, breakpoints, b, start_idx, chunks) ==
    IF b > Len(breakpoints)
    THEN (IF start_idx < Len(sentences)
          THEN LET final_chunk == Join(Slice(sentences, start_idx, Len(sentences)), <<" ">>)
               IN  IF Strip(final_chunk) # <<>> THEN Append(chunks, final_chunk) ELSE chunks
          ELSE chunks)
    ELSE LET chunk_text == Join(Slice(sentences, start_idx, breakpoints[b]), <<" ">>)
         IN  BreakLoop(sentences, breakpoints, b + 1, breakpoints[b],
                       IF Strip(chunk_text) # <<>> THEN Append(chunks, chunk_text)
                       ELSE chunks)

\* SemanticChunker._manual_semantic_split
ManualSemanticSplit(p, env, text) ==
    LET Chunks(sentences) ==
            IF Len(sentences) <= 1 THEN <<text>>
            ELSE IF env.embedder = "encode_fails" THEN FallbackSentenceSplit(p, sentences)
            ELSE BreakLoop(sentences, FindSemanticBreakpoints(p, sentences), 1, 0, <<>>)
    IN  Chunks(SplitIntoSentences(text))

\* langchain_experimental's SemanticChunker.split_text, an external library:
\* the text is cut at the whitespace that follows a terminator
\* (re.split(r"(?<=[.?!])\s+", text)), and consecutive sentences stay in one
\* chunk, joined by one space, unless their embeddings differ by more than
\* the threshold.  A text of one sentence is returned whole.
LangChainSentences(s) ==
    LET Pieces(seps) ==
            [k \in 1..(Len(seps) + 1) |->
                SubSeq(s,
                       IF k = 1 THEN 1 ELSE AfterSpaces(s, seps[k - 1]),
                       IF k = Len(seps) + 1 THEN Len(s) ELSE seps[k] - 1)]
    IN  Pieces(SelectSeq(Indices(s),
                   LAMBDA i : IsSpace(s[i]) /\ i > 1 /\ IsTerminator(s[i - 1])))

LangChainSplitText(p, text) ==
    LET Chunks(sentences) ==
            IF Len(sentences) <= 1 THEN <<text>>
            ELSE BreakLoop(sentences, FindSemanticBreakpoints(p, sentences), 1, 0, <<>>)
    IN  Chunks(SelectSeq(LangChainSentences(text), LAMBDA x : x # <<>>))

\* SemanticChunker._split_large_chunk
SplitLargeChunk(p, chunk) == FallbackSentenceSplit(p, SplitIntoSentences(chunk))

\* The size filter of _semantic_split_text over chunks[i..] (lines 173-186)
RECURSIVE SizeFilterLoop(_, _, _, _)
SizeFilterLoop(p, chunks, i, filtered_chunks) ==
    IF i > Len(chunks) THEN filtered_chunks
    ELSE LET chunk == chunks[i]
         IN  IF Len(chunk) < p.min_chunk_size
             THEN SizeFilterLoop(p, chunks, i + 1,
                      IF filtered_chunks # <<>>
                      THEN [filtered_chunks EXCEPT ![Len(filtered_chunks)] =
                               @ \o <<"\n", "\n">> \o chunk]
                      ELSE Append(filtered_chunks, chunk))
             ELSE IF Len(chunk) > p.max_chunk_size
             THEN SizeFilterLoop(p, chunks, i + 1,
                                 filtered_chunks \o SplitLargeChunk(p, chunk))
             ELSE SizeFilterLoop(p, chunks, i + 1, Append(filtered_chunks, chunk))

\* The chunks the size filter returns (line 188)
SizeFiltered(p, chunks) ==
    SelectSeq(SizeFilterLoop(p, chunks, 1, <<>>), LAMBDA c : Strip(c) # <<>>)

\* SemanticChunker._semantic_split_text: the delegated splitter is not
\* importable (the built-in split is used), or it returns chunks, which go
\* through the size filter, or it raises.
SemanticSplitText(p, env, text) ==
    IF env.splitter["SemanticChunker"] = "absent"
    THEN [ok |-> TRUE, val |-> ManualSemanticSplit(p, env, text)]
    ELSE IF env.splitter["SemanticChunker"] = "returns"
    THEN [ok |-> TRUE, val |-> SizeFiltered(p, LangChainSplitText(p, text))]
    ELSE [ok |-> FALSE, err |-> SplitterError]

SemanticMetadata(p, i, chunk_text) ==
    ("chunk_index" :> i) @@ ("total_chunks" :> 0) @@ ("chunk_size" :> Len(chunk_text))
    @@ ("similarity_threshold" :> p.similarity_threshold)
    @@ ("strategy_config" :> "semantic")

\* SemanticChunker._create_document_chunk
SemanticCreateChunk(p, doc, chunk_text, chunk_index, original_text, token_count) ==
    LET Created(start_pos) ==
            DocumentChunk(generate_chunk_id("semantic", doc.document_id, chunk_index),
                          doc.document_id, "semantic", chunk_text,
                          start_pos,
                          Min(start_pos + Len(chunk_text), Len(original_text)),
                          token_count,
                          SemanticMetadata(p, chunk_index, chunk_text), <<>>)
        Located(found) ==
            Created(IF found = -1 THEN chunk_index * PositionEstimateStride ELSE found)
    IN  Located(Find(original_text, Slice(chunk_text, 0, PositionProbeLength)))

\* The body of the try block of SemanticChunker.chunk_document (lines 106-141)
\* Both fallback branches (the embedder is the "fallback" marker, line 116;
\* the split raised, line 122) make the same call and share one branch here.
SemanticTryBody(p, st, env, doc) ==
    LET Chunked(text, split, counts, st1) ==
            IF ~counts.ok
            THEN [ok |-> FALSE, err |-> counts.err,
                  st |-> [st1 EXCEPT !.enc = counts.st]]
            ELSE [ok |-> TRUE,
                  val |-> [i \in 1..Len(split.val) |->
                              SemanticCreateChunk(p, doc, split.val[i], i - 1,
                                                  text, counts.val[i])],
                  st |-> [st1 EXCEPT !.enc = counts.st]]
        Counted(text, split, st1) ==
            Chunked(text, split,
                    CountAll(split.val, 1, st1.enc, env.tokenizer, <<>>), st1)
        Routed(text, e, split, st1) ==
            IF text = <<>> THEN [ok |-> TRUE, val |-> <<>>, st |-> st]
            ELSE IF ~e.ok THEN [ok |-> FALSE, err |-> e.err, st |-> st1]
            ELSE IF e.val = "fallback" \/ ~split.ok
                 THEN SemanticFallbackChunking(p, st1, env, doc)
            ELSE Counted(text, split, st1)
        Embedded(text, e) ==
            Routed(text, e, SemanticSplitText(p, env, text), [st EXCEPT !.emb = e.st])
        Cleaned(text) == Embedded(text, Embedder(st.emb, env.embedder))
    IN  Cleaned(clean_text(doc.full_text))

\* SemanticChunker.chunk_document
SemanticChunkDocument(p, st, env, doc) ==
    IF ~validate_document(doc)
    THEN ChunkingError(ValidationError(doc), "semantic", doc.document_id, st)
    ELSE LET Raised(r) == IF r.ok THEN r ELSE Wrapped("Semantic chunking failed: ", r)
         IN  Raised(SemanticTryBody(p, st, env, doc))

\* ------------------------------------------------------------------------
\* utils.py: element windows and groups; strategies/sliding_unstructured.py
\* An element is a record [type, text]; the optional keys start_position,
\* end_position and page_number are absent, so the .get() defaults apply.
\* overlap_percentage is a fraction <<numerator, denominator>>.
\* ------------------------------------------------------------------------

WindowElements == 10

\* A variant of the overlap that may be of no element at all
OverlapElementsFloor(width, pct) == (width * pct[1]) \div pct[2]

\* int((chunk_end - current_start) * overlap_percentage)
OverlapElements(width, pct) == Max(1, (width * pct[1]) \div pct[2])

RECURSIVE OverlapLoop(_, _, _, _)
OverlapLoop(n, pct, current_start, chunks) ==
    IF ~(current_start < n) THEN chunks
    ELSE LET chunk_end == Min(current_start + WindowElements, n)
             out == Append(chunks, <<current_start, chunk_end>>)
         IN  IF chunk_end >= n THEN out
             ELSE OverlapLoop(n, pct,
                              chunk_end - OverlapElements(chunk_end - current_start, pct),
                              out)

\* utils.calculate_overlap_positions
calculate_overlap_positions(elements, pct) ==
    IF elements = <<>> \/ pct[1] <= 0 THEN << <<0, Len(elements)>> >>
    ELSE OverlapLoop(Len(elements), pct, 0, <<>>)

\* A variant of the loop in which a priority element closes the current
\* group even when that group is empty
RECURSIVE GroupLoopAlwaysClosing(_, _, _, _, _)
GroupLoopAlwaysClosing(elements, i, priority, groups, current_group) ==
    IF i > Len(elements)
    THEN (IF current_group # <<>> THEN Append(groups, current_group) ELSE groups)
    ELSE IF elements[i].type \in priority
         THEN GroupLoopAlwaysClosing(elements, i + 1, priority,
                                     Append(groups, current_group), <<elements[i]>>)
         ELSE GroupLoopAlwaysClosing(elements, i + 1, priority, groups,
                                     Append(current_group, elements[i]))

RECURSIVE GroupLoop(_, _, _, _, _)
GroupLoop(elements, i, priority, groups, current_group) ==
    IF i > Len(elements)
    THEN (IF current_group # <<>> THEN Append(groups, current_group) ELSE groups)
    ELSE IF elements[i].type \in priority /\ current_group # <<>>
         THEN GroupLoop(elements, i + 1, priority,
                        Append(groups, current_group), <<elements[i]>>)
         ELSE GroupLoop(elements, i + 1, priority, groups,
                        Append(current_group, elements[i]))

DefaultPriorityElements == {"Title", "Header", "NarrativeText"}

\* utils.group_elements_by_priority
group_elements_by_priority(elements, priority_elements) ==
    IF elements = <<>> THEN <<>>
    ELSE GroupLoop(elements, 1,
                   IF priority_elements = {} THEN DefaultPriorityElements
                   ELSE priority_elements,
                   <<>>, <<>>)

\* utils.extract_text_from_elements
extract_text_from_elements(elements) ==
    LET texts == SelectSeq([i \in 1..Len(elements) |-> Strip(elements[i].text)],
                           LAMBDA t : t # <<>>)
    IN  Join(texts, <<"\n", "\n">>)

\* SlidingUnstructuredChunker.__init__: the configuration check
UnstructuredInit(p) ==
    IF p.max_elements_per_chunk <= 0
    THEN [ok |-> FALSE, err |-> <<"max_elements_per_chunk must be positive">>]
    ELSE IF p.overlap_percentage[1] < 0 \/ p.overlap_percentage[1] >= p.overlap_percentage[2]
    THEN [ok |-> FALSE, err |-> <<"overlap_percentage must be between 0 and 1">>]
    ELSE [ok |-> TRUE, val |-> p]

UnstructuredMetadata(p, i, elements) ==
    ("chunk_index" :> i) @@ ("total_chunks" :> 0)
    @@ ("element_count" :> Len(elements))
    @@ ("element_types" :> [k \in 1..Len(elements) |-> elements[k].type])
    @@ ("overlap_percentage" :> p.overlap_percentage)
    @@ ("strategy_config" :> "sliding_unstructured")

\* The (text, elements, chunk_index) of the chunks that the window loop of
\* _chunk_element_groups emits for one group (lines 145-162): chunk_index
\* advances only when a chunk is emitted.
RECURSIVE GroupWindows(_, _, _, _, _)
GroupWindows(group, positions, k, chunk_index, acc) ==
    IF k > Len(positions) THEN acc
    ELSE LET Emitted(elements_subset, chunk_text) ==
                 IF elements_subset = <<>> \/ Strip(chunk_text) = <<>>
                 THEN [index |-> chunk_index, acc |-> acc]
                 ELSE [index |-> chunk_index + 1,
                       acc |-> Append(acc, [text |-> chunk_text,
                                            elements |-> elements_subset,
                                            index |-> chunk_index])]
             Extracted(elements_subset) ==
                 Emitted(elements_subset, extract_text_from_elements(elements_subset))
             Continued(e) == GroupWindows(group, positions, k + 1, e.index, e.acc)
         IN  Continued(Extracted(Slice(group, positions[k][1], positions[k][2])))

\* SlidingUnstructuredChunker._chunk_element_groups, before token counting
RECURSIVE ChunkElementGroups(_, _, _, _)
ChunkElementGroups(p, groups, g, acc) ==
    IF g > Len(groups) THEN acc
    ELSE IF groups[g] = <<>> THEN ChunkElementGroups(p, groups, g + 1, acc)
    ELSE ChunkElementGroups(p, groups, g + 1,
             GroupWindows(groups[g],
                          calculate_overlap_positions(groups[g], p.overlap_percentage),
                          1, Len(acc), acc))

\* SlidingUnstructuredChunker._chunk_elements_directly, before token
\* counting: chunk_index is the window's position in the enumeration, also
\* when an earlier window was skipped.
RECURSIVE DirectWindows(_, _, _, _)
DirectWindows(elements, positions, k, acc) ==
    IF k > Len(positions) THEN acc
    ELSE LET Emitted(elements_subset, chunk_text) ==
                 IF elements_subset = <<>> \/ Strip(chunk_text) = <<>>
                 THEN acc
                 ELSE Append(acc, [text |-> chunk_text,
                                   elements |-> elements_subset,
                                   index |-> k - 1])
             Extracted(elements_subset) ==
                 Emitted(elements_subset, extract_text_from_elements(elements_subset))
         IN  DirectWindows(elements, positions, k + 1,
                           Extracted(Slice(elements, positions[k][1], positions[k][2])))

\* SlidingUnstructuredChunker._create_document_chunk
UnstructuredCreateChunk(p, doc, w, token_count) ==
    DocumentChunk(generate_chunk_id("sliding_unstructured", doc.document_id, w.index),
                  doc.document_id, "sliding_unstructured", w.text,
                  0, Len(w.text), token_count,
                  UnstructuredMetadata(p, w.index, w.elements), w.elements)

UnstructuredFallbackConfig == [chunk_size |-> 1000, chunk_overlap |-> 200]

\* SlidingUnstructuredChunker._fallback_text_chunking
UnstructuredFallbackTextChunking(st, env, doc) ==
    FallbackToSliding(UnstructuredFallbackConfig, "sliding_unstructured", st, env, doc)

\* The body of the try block of SlidingUnstructuredChunker.chunk_document
UnstructuredTryBody(p, st, env, doc) ==
    IF doc.elements = <<>> THEN UnstructuredFallbackTextChunking(st, env, doc)
    ELSE LET Chunked(windows, counts) ==
                 IF ~counts.ok
                 THEN [ok |-> FALSE, err |-> counts.err,
                       st |-> [st EXCEPT !.enc = counts.st]]
                 ELSE [ok |-> TRUE,
                       val |-> [i \in 1..Len(windows) |->
                                   UnstructuredCreateChunk(p, doc, windows[i],
                                                           counts.val[i])],
                       st |-> [st EXCEPT !.enc = counts.st]]
             Counted(windows) ==
                 Chunked(windows,
                         CountAll([i \in 1..Len(windows) |-> windows[i].text],
                                  1, st.enc, env.tokenizer, <<>>))
         IN  Counted(IF p.respect_boundaries
                     THEN ChunkElementGroups(p,
                              group_elements_by_priority(doc.elements, p.priority_elements),
                              1, <<>>)
                     ELSE DirectWindows(doc.elements,
                              calculate_overlap_positions(doc.elements, p.overlap_percentage),
                              1, <<>>))

\* SlidingUnstructuredChunker.chunk_document
UnstructuredChunkDocument(p, st, env, doc) ==
    IF ~validate_document(doc)
    THEN ChunkingError(ValidationError(doc), "sliding_unstructured", doc.document_id, st)
    ELSE LET Raised(r) ==
                 IF r.ok THEN r ELSE Wrapped("Sliding Unstructured chunking failed: ", r)
         IN  Raised(UnstructuredTryBody(p, st, env, doc))

\* ------------------------------------------------------------------------
\* base.ChunkingStrategy.process_document_with_stats
\* ------------------------------------------------------------------------

StrategyRegistry == {"fixed_size", "sliding_langchain", "sliding_unstructured", "semantic"}

\* strategy.chunk_document(document), dispatched on the strategy's class
ChunkDocument(name, p, st, env, doc) ==
    CASE name = "fixed_size" -> FixedChunkDocument(p, st, env, doc)
      [] name = "sliding_langchain" -> SlidingChunkDocument(p, st, env, doc)
      [] name = "sliding_unstructured" -> UnstructuredChunkDocument(p, st, env, doc)
      [] name = "semantic" -> SemanticChunkDocument(p, st, env, doc)

ZeroStatistics ==
    [total_chunks |-> 0, avg_chunk_size |-> <<0, 1>>, min_chunk_size |-> 0,
     max_chunk_size |-> 0, avg_token_count |-> <<0, 1>>, min_token_count |-> 0,
     max_token_count |-> 0]

\* A variant of the statistics that reports the index of the last chunk as
\* total_chunks
StatisticsByLastIndex(chunks) ==
    IF chunks = <<>> THEN ZeroStatistics
    ELSE LET chunk_sizes == [i \in 1..Len(chunks) |-> Len(chunks[i].content)]
             token_counts == [i \in 1..Len(chunks) |-> chunks[i].token_count]
         IN  [total_chunks |-> Len(chunks) - 1,
              avg_chunk_size |-> Ratio(SumSeq(chunk_sizes), Len(chunks)),
              min_chunk_size |-> MinSeq(chunk_sizes),
              max_chunk_size |-> MaxSeq(chunk_sizes),
              avg_token_count |-> Ratio(SumSeq(token_counts), Len(token_counts)),
              min_token_count |-> MinSeq(token_counts),
              max_token_count |-> MaxSeq(token_counts)]

\* ChunkingStrategy._calculate_statistics
CalculateStatistics(chunks) ==
    IF chunks = <<>> THEN ZeroStatistics
    ELSE LET chunk_sizes == [i \in 1..Len(chunks) |-> Len(chunks[i].content)]
             token_counts == [i \in 1..Len(chunks) |-> chunks[i].token_count]
         IN  [total_chunks |-> Len(chunks),
              avg_chunk_size |-> Ratio(SumSeq(chunk_sizes), Len(chunks)),
              min_chunk_size |-> MinSeq(chunk_sizes),
              max_chunk_size |-> MaxSeq(chunk_sizes),
              avg_token_count |-> Ratio(SumSeq(token_counts), Len(token_counts)),
              min_token_count |-> MinSeq(token_counts),
              max_token_count |-> MaxSeq(token_counts)]

\* The ChunkingResult of the except branch (lines 114-130)
FailedResult(name, doc, err) ==
    [strategy_name |-> name, document_id |-> doc.document_id, chunks |-> <<>>,
     statistics |-> ZeroStatistics, success |-> FALSE, error_message |-> err]

\* The ChunkingResult of the try branch (lines 99-105)
SuccessResult(name, doc, chunks) ==
    [strategy_name |-> name, document_id |-> doc.document_id, chunks |-> chunks,
     statistics |-> CalculateStatistics(chunks), success |-> TRUE,
     error_message |-> <<>>]

\* ChunkingStrategy.process_document_with_stats: the result and the
\* strategy object's state afterwards
ProcessDocumentWithStats(name, p, st, env, doc) ==
    LET Outcome(r) ==
            IF r.ok THEN [result |-> SuccessResult(name, doc, r.val), st |-> r.st]
            ELSE [result |-> FailedResult(name, doc, r.err), st |-> r.st]
    IN  Outcome(ChunkDocument(name, p, st, env, doc))

\* ------------------------------------------------------------------------
\* pipeline.ChunkingPipeline
\* A pipeline's _strategies is [order, st]: the names in insertion order and
\* each strategy object's state.
\* ------------------------------------------------------------------------

\* The parameters a strategy's constructor reads with config.get(key,
\* default) when the configuration holds nothing for the strategy
ConstructorDefaults(name) ==
    CASE name = "fixed_size" -> [chunk_size |-> 1024, chunk_overlap |-> 0]
      [] name = "sliding_langchain" -> [chunk_size |-> 1000, chunk_overlap |-> 200]
      [] name = "sliding_unstructured" ->
            [max_elements_per_chunk |-> 10, overlap_percentage |-> <<1, 5>>,
             priority_elements |-> DefaultPriorityElements, respect_boundaries |-> TRUE]
      [] name = "semantic" ->
            [similarity_threshold |-> 80, min_chunk_size |-> 200, max_chunk_size |-> 2000]

\* ChunkingConfig.get_strategy_config, with the constructor's defaults
get_strategy_config(config, name) ==
    IF name \in DOMAIN config.strategy_configs THEN config.strategy_configs[name]
    ELSE ConstructorDefaults(name)

\* get_strategy_class(name) followed by strategy_class(strategy_config)
ConstructStrategy(config, name) ==
    IF name \notin StrategyRegistry
    THEN [ok |-> FALSE, err |-> <<"Unknown strategy '", name, "'">>]
    ELSE LET p == get_strategy_config(config, name)
         IN  CASE name = "fixed_size" -> FixedSizeInit(p)
               [] name = "sliding_langchain" -> SlidingInit(p)
               [] name = "sliding_unstructured" -> UnstructuredInit(p)
               [] name = "semantic" -> SemanticInit(p)

InSeq(x, xs) == \E i \in 1..Len(xs) : xs[i] = x

ElementsOf(xs) == {xs[i] : i \in 1..Len(xs)}

\* A variant of the initialization that the first failing construction ends:
\* the strategies after it are not constructed.
RECURSIVE InitializeStrategiesUntilFailure(_, _, _)
InitializeStrategiesUntilFailure(config, i, strategies) ==
    IF i > Len(config.enabled_strategies) THEN strategies
    ELSE LET name == config.enabled_strategies[i]
             made == ConstructStrategy(config, name)
         IN  IF ~made.ok THEN strategies
             ELSE InitializeStrategiesUntilFailure(config, i + 1,
                      [order |-> IF InSeq(name, strategies.order) THEN strategies.order
                                 ELSE Append(strategies.order, name),
                       st |-> (name :> FreshState) @@ strategies.st])

\* ChunkingPipeline._initialize_strategies over enabled_strategies[i..]: a
\* strategy whose construction raises is skipped; one that is constructed
\* replaces the object stored under its name.
RECURSIVE InitializeStrategies(_, _, _)
InitializeStrategies(config, i, strategies) ==
    IF i > Len(config.enabled_strategies) THEN strategies
    ELSE LET name == config.enabled_strategies[i]
             made == ConstructStrategy(config, name)
         IN  IF ~made.ok THEN InitializeStrategies(config, i + 1, strategies)
             ELSE InitializeStrategies(config, i + 1,
                      [order |-> IF InSeq(name, strategies.order) THEN strategies.order
                                 ELSE Append(strategies.order, name),
                       st |-> (name :> FreshState) @@ strategies.st])

NoStrategies == [order |-> <<>>, st |-> <<>>]

\* A variant of the post-processing that leaves the chunks as the strategy
\* made them
BackfillOmitted(result) == result

\* for chunk in result.chunks: chunk.metadata['total_chunks'] = len(result.chunks)
BackfillTotalChunks(result) ==
    [result EXCEPT !.chunks =
        [i \in 1..Len(result.chunks) |->
            [result.chunks[i] EXCEPT !.metadata =
                ("total_chunks" :> Len(result.chunks)) @@ result.chunks[i].metadata]]]

\* A variant of the loop that a failed result ends: the strategies after the
\* failing one are not run.
RECURSIVE ProcessLoopAborting(_, _, _, _, _, _, _)
ProcessLoopAborting(config, env, doc, names, i, strategies, results) ==
    IF i > Len(names) THEN [results |-> results, strategies |-> strategies]
    ELSE LET name == names[i]
         IN  IF ~InSeq(name, strategies.order)
             THEN ProcessLoopAborting(config, env, doc, names, i + 1, strategies, results)
             ELSE LET Recorded(r, recorded, after) ==
                          IF ~r.result.success
                          THEN [results |-> recorded, strategies |-> after]
                          ELSE ProcessLoopAborting(config, env, doc, names, i + 1, after,
                                                   recorded)
                      Ran(r) ==
                          Recorded(r, (name :> BackfillTotalChunks(r.result)) @@ results,
                                   [strategies EXCEPT !.st[name] = r.st])
                  IN  Ran(ProcessDocumentWithStats(name, get_strategy_config(config, name),
                                                   strategies.st[name], env, doc))

\* The loop of ChunkingPipeline.process_document over strategies[i..]
RECURSIVE ProcessLoop(_, _, _, _, _, _, _)
ProcessLoop(config, env, doc, names, i, strategies, results) ==
    IF i > Len(names) THEN [results |-> results, strategies |-> strategies]
    ELSE LET name == names[i]
         IN  IF ~InSeq(name, strategies.order)
             THEN ProcessLoop(config, env, doc, names, i + 1, strategies, results)
             ELSE LET Recorded(r) ==
                          ProcessLoop(config, env, doc, names, i + 1,
                                      [strategies EXCEPT !.st[name] = r.st],
                                      (name :> BackfillTotalChunks(r.result)) @@ results)
                  IN  Recorded(ProcessDocumentWithStats(
                                   name, get_strategy_config(config, name),
                                   strategies.st[name], env, doc))

\* The strategies argument: None, or a list of names
None == [given |-> FALSE, names |-> <<>>]

Names(names) == [given |-> TRUE, names |-> names]

\* ChunkingPipeline.process_document
ProcessDocument(config, env, strategies, doc, requested) ==
    ProcessLoop(config, env, doc,
                IF ~requested.given THEN strategies.order ELSE requested.names,
                1, strategies, <<>>)

\* ------------------------------------------------------------------------
\* ChunkingPipeline.generate_comparison_report.  results is the nested dict
\* as the sequence of its items [document_id, results], in insertion order.
\* Times are not modelled: generated_at and
\* avg_processing_time_per_document are left out.  strategies_compared is
\* the set of the keys.
\* ------------------------------------------------------------------------

NoMetrics ==
    [total_documents |-> 0, successful_documents |-> 0, total_chunks |-> 0,
     chunk_sizes |-> <<>>, token_counts |-> <<>>]

\* A variant of the accumulation that counts a document only when its result
\* succeeded
RECURSIVE StrategyMetricsOfSuccesses(_, _, _, _)
StrategyMetricsOfSuccesses(results, strategy_name, i, metrics) ==
    IF i > Len(results) THEN metrics
    ELSE IF strategy_name \notin DOMAIN results[i].results
    THEN StrategyMetricsOfSuccesses(results, strategy_name, i + 1, metrics)
    ELSE LET result == results[i].results[strategy_name]
         IN  StrategyMetricsOfSuccesses(results, strategy_name, i + 1,
                 IF ~result.success THEN metrics
                 ELSE [total_documents |-> metrics.total_documents + 1,
                       successful_documents |-> metrics.successful_documents + 1,
                       total_chunks |-> metrics.total_chunks + Len(result.chunks),
                       chunk_sizes |-> metrics.chunk_sizes
                           \o [k \in 1..Len(result.chunks) |-> Len(result.chunks[k].content)],
                       token_counts |-> metrics.token_counts
                           \o [k \in 1..Len(result.chunks) |-> result.chunks[k].token_count]])

\* strategy_metrics[strategy_name] after the loop over results[i..]
\* (lines 328-352)
RECURSIVE StrategyMetrics(_, _, _, _)
StrategyMetrics(results, strategy_name, i, metrics) ==
    IF i > Len(results) THEN metrics
    ELSE IF strategy_name \notin DOMAIN results[i].results
    THEN StrategyMetrics(results, strategy_name, i + 1, metrics)
    ELSE LET result == results[i].results[strategy_name]
             counted_in == [metrics EXCEPT !.total_documents = @ + 1]
         IN  StrategyMetrics(results, strategy_name, i + 1,
                 IF ~result.success THEN counted_in
                 ELSE [total_documents |-> counted_in.total_documents,
                       successful_documents |-> metrics.successful_documents + 1,
                       total_chunks |-> metrics.total_chunks + Len(result.chunks),
                       chunk_sizes |-> metrics.chunk_sizes
                           \o [k \in 1..Len(result.chunks) |-> Len(result.chunks[k].content)],
                       token_counts |-> metrics.token_counts
                           \o [k \in 1..Len(result.chunks) |-> result.chunks[k].token_count]])

\* comparison_report['strategy_performance'][strategy_name] (lines 362-386)
StrategyPerformance(metrics) ==
    [success_rate |-> IF metrics.total_documents > 0
                      THEN Ratio(metrics.successful_documents, metrics.total_documents)
                      ELSE <<0, 1>>,
     avg_chunks_per_document |->
         IF metrics.successful_documents > 0
         THEN Ratio(metrics.total_chunks, metrics.successful_documents)
         ELSE <<0, 1>>,
     avg_chunk_size |-> IF metrics.chunk_sizes # <<>>
                        THEN Ratio(SumSeq(metrics.chunk_sizes), Len(metrics.chunk_sizes))
                        ELSE <<0, 1>>,
     avg_token_count |-> IF metrics.chunk_sizes # <<>>
                         THEN Ratio(SumSeq(metrics.token_counts), Len(metrics.token_counts))
                         ELSE <<0, 1>>,
     total_chunks |-> metrics.total_chunks]

\* The keys of strategy_metrics
StrategiesIn(results) == UNION {DOMAIN results[i].results : i \in 1..Len(results)}

\* {}
EmptyReport == <<>>

generate_comparison_report(results) ==
    IF results = <<>> THEN EmptyReport
    ELSE [total_documents_processed |-> Len(results),
          strategies_compared |-> StrategiesIn(results),
          strategy_performance |->
              [s \in StrategiesIn(results) |->
                  StrategyPerformance(StrategyMetrics(results, s, 1, NoMetrics))]]

\* ------------------------------------------------------------------------
\* The inputs of the model: environments, configurations, documents and
\* strategy lists
\* ------------------------------------------------------------------------

NoSplitterRaises == [c \in SplitterClasses |-> "absent"]

Env(tokenizer, embedder, splitter) ==
    [tokenizer |-> tokenizer, embedder |-> embedder, splitter |-> splitter]

\* No optional library installed; or one capability in one of its other
\* states; or one delegated splitter class raising; or tokenizer and
\* embedding model both working.
Envs ==
    {Env(t, "absent", NoSplitterRaises) : t \in TokenizerStates}
    \cup {Env("absent", e, NoSplitterRaises) : e \in EmbedderStates}
    \cup {Env("absent", "absent", [NoSplitterRaises EXCEPT ![c] = "raises"]) :
             c \in SplitterClasses}
    \cup {Env("ok", "ok", NoSplitterRaises)}

\* Every strategy valid; the semantic fallback's chunk size is 205
ConfigA ==
    [enabled_strategies |->
        <<"fixed_size", "sliding_langchain", "sliding_unstructured", "semantic">>,
     strategy_configs |->
        [fixed_size |-> [chunk_size |-> 3, chunk_overlap |-> 1],
         sliding_langchain |-> [chunk_size |-> 8, chunk_overlap |-> 2],
         sliding_unstructured |->
            [max_elements_per_chunk |-> 10, overlap_percentage |-> <<1, 5>>,
             priority_elements |-> {}, respect_boundaries |-> TRUE],
         semantic |-> [similarity_threshold |-> 80, min_chunk_size |-> 2,
                       max_chunk_size |-> 205]],
     batch_size |-> 2, max_workers |-> 2]

\* An unknown strategy name and an invalid sliding-window configuration;
\* max_chunk_size below the fallback's overlap; element windows without
\* grouping
ConfigB ==
    [enabled_strategies |->
        <<"semantic", "bogus", "sliding_langchain", "fixed_size", "sliding_unstructured">>,
     strategy_configs |->
        [fixed_size |-> [chunk_size |-> 2, chunk_overlap |-> 0],
         sliding_langchain |-> [chunk_size |-> 5, chunk_overlap |-> 5],
         sliding_unstructured |->
            [max_elements_per_chunk |-> 10, overlap_percentage |-> <<0, 1>>,
             priority_elements |-> {"Title"}, respect_boundaries |-> FALSE],
         semantic |-> [similarity_threshold |-> 50, min_chunk_size |-> 1,
                       max_chunk_size |-> 150]],
     batch_size |-> 3, max_workers |-> 1]

Configs == {ConfigA, ConfigB}

Document(document_id, full_text, elements) ==
    [document_id |-> document_id, full_text |-> full_text, elements |-> elements]

\* "ab  cd.\nae f. ba": three sentences, a topic shift before the third
DocShort ==
    Document("d1", <<"a", "b", " ", " ", "c", "d", ".", "\n", "a", "e", " ", "f",
                     ".", " ", "b", "a">>, <<>>)

DocEmpty == Document("d2", <<>>, <<>>)

LongTextExcess == 3

\* Words of 20 letters; every third word ends a sentence
LongText(n) ==
    [i \in 1..n |->
        IF i % 21 = 0 THEN " "
        ELSE IF i % 63 = 62 THEN "."
        ELSE IF (i \div 63) % 2 = 0 THEN "a" ELSE "b"]

\* A document a little longer than the chunk size of the semantic strategy's
\* fallback under the configuration
LongDocument(cfg) ==
    Document("d3",
             LongText(Min(get_strategy_config(cfg, "semantic").max_chunk_size,
                          FallbackChunkSizeCap) + LongTextExcess),
             <<>>)

DocElements ==
    Document("d4", <<"T", ".", " ", "a", "b">>,
             << [type |-> "Title", text |-> <<"T">>],
                [type |-> "NarrativeText", text |-> <<"a", "b", " ">>],
                [type |-> "Table", text |-> <<>>],
                [type |-> "Header", text |-> <<"H">>],
                [type |-> "ListItem", text |-> <<"x", " ", "y">>] >>)

\* Text, and elements that hold none
DocBlankElements ==
    Document("d5", <<"a", "b", " ", "c", "d", " ", "e", "f", " ", "g", "h">>,
             << [type |-> "Table", text |-> <<>>],
                [type |-> "NarrativeText", text |-> <<" ">>] >>)

Docs == {DocShort, DocEmpty, DocElements, DocBlankElements}

RequestNames == StrategyRegistry \cup {"bogus"}

\* The strategies argument: None, the empty list, one name, or a list that
\* names an unknown strategy between two known ones
Requests ==
    {None, Names(<<>>), Names(<<"semantic", "bogus", "fixed_size">>)}
    \cup {Names(<<a>>) : a \in RequestNames}

\* The semantic strategy alone, with a max_chunk_size above the fallback's cap
ConfigC ==
    [enabled_strategies |-> <<"semantic">>,
     strategy_configs |->
        [semantic |-> [similarity_threshold |-> 80, min_chunk_size |-> 2,
                       max_chunk_size |-> 1200]],
     batch_size |-> 2, max_workers |-> 2]

\* The texts handed to a token counter on its own
Texts ==
    {d.full_text : d \in Docs \cup {LongDocument(ConfigA)}}
    \cup {<<"a">>, <<" ", "a", "\t", " ", "b", "\n">>, <<"a", " ", "b", " ", "c", " ", "d">>}

\* The same document_id as DocShort, another text
DocShortTwin == Document("d1", <<"x", "y", ".">>, <<>>)

BatchDocs == {DocShort, DocEmpty, DocElements, DocShortTwin}

MaxDocuments == 3

\* The documents argument of process_documents_batch: every list of at most
\* MaxDocuments documents without a repeated document
DocumentLists ==
    {l \in UNION {[1..n -> BatchDocs] : n \in 0..Min(MaxDocuments, Cardinality(BatchDocs))} :
        \A a, b \in DOMAIN l : a # b => l[a] # l[b]}

BatchRequests == {None, Names(<<"sliding_langchain", "fixed_size">>)}

\* The max_workers argument; 0 stands for None
WorkerArguments == {0, 1, 2}

\* ------------------------------------------------------------------------
\* config.py: the default configuration and the configurations made from
\* it.  Python dicts and lists are objects: the heap holds them by address.
\*   lists   : the enabled_strategies lists
\*   outer   : the strategy_configs dicts, strategy name -> address in inner
\*   inner   : the parameter dicts of the strategies, key -> value
\*   configs : the ChunkingConfig objects handed out, in order; each holds
\*             the addresses of its enabled_strategies and strategy_configs
\* Of the parameters, those read by the validation are kept.
\* ------------------------------------------------------------------------

ConfigNames == <<"fixed_size", "sliding_langchain", "sliding_unstructured", "semantic">>

\* The parameter dicts of DEFAULT_CHUNKING_CONFIG, in the order of ConfigNames
DefaultParameters ==
    << [chunk_size |-> 1000],
       [chunk_size |-> 1000, chunk_overlap |-> 80],
       [max_elements_per_chunk |-> 10],
       [min_chunk_size |-> 200, max_chunk_size |-> 2000] >>

\* DEFAULT_CHUNKING_CONFIG: the addresses of its list and of its dict
DEFAULT_CHUNKING_CONFIG == [enabled_strategies |-> 1, strategy_configs |-> 1]

\* The heap when the module has been imported
InitialHeap ==
    [lists |-> << ConfigNames >>,
     outer |-> << [n \in {ConfigNames[i] : i \in 1..Len(ConfigNames)} |->
                     CHOOSE i \in 1..Len(ConfigNames) : ConfigNames[i] = n] >>,
     inner |-> DefaultParameters,
     configs |-> <<>>]

\* dict.get(key, default)
Get(d, key, default) == IF key \in DOMAIN d THEN d[key] ELSE default

\* The keys of a strategy_configs dict, in insertion order
KeysOf(sc) == SelectSeq(ConfigNames, LAMBDA n : n \in DOMAIN sc)

\* ChunkingConfig.from_dict: the object keeps the list and the dict of data
from_dict(data) ==
    [enabled_strategies |-> data.enabled_strategies,
     strategy_configs |-> data.strategy_configs]

\* get_default_config
get_default_config(h) ==
    [h EXCEPT !.configs = Append(@, from_dict(DEFAULT_CHUNKING_CONFIG))]

\* ChunkingConfigManager._merge_configs.  custom is the content of the file:
\* keys is the set of its top-level keys.  The result is the heap and the
\* merged dict.
\* Each strategy of the file is one the defaults have, so the parameter dict
\* of the defaults is updated in place (line 154).
\* merged is a shallow copy: it starts with the list and the dict of default_config.
merge_configs(h, default_config, custom) ==
    LET sc == h.outer[default_config.strategy_configs]
        Updated(a) ==
            IF \E n \in DOMAIN custom.strategy_configs : n \in DOMAIN sc /\ sc[n] = a
            THEN LET n == CHOOSE n \in DOMAIN custom.strategy_configs :
                              n \in DOMAIN sc /\ sc[n] = a
                 IN  custom.strategy_configs[n] @@ h.inner[a]
            ELSE h.inner[a]
        h1 == IF "strategy_configs" \in custom.keys
              THEN [h EXCEPT !.outer = Append(@, sc),
                             !.inner = [a \in 1..Len(h.inner) |-> Updated(a)]]
              ELSE h
        h2 == IF "enabled_strategies" \in custom.keys
              THEN [h1 EXCEPT !.lists = Append(@, custom.enabled_strategies)]
              ELSE h1
    IN  [heap |-> h2,
         data |-> [enabled_strategies |->
                       IF "enabled_strategies" \in custom.keys THEN Len(h2.lists)
                       ELSE default_config.enabled_strategies,
                   strategy_configs |->
                       IF "strategy_configs" \in custom.keys THEN Len(h2.outer)
                       ELSE default_config.strategy_configs]]

\* ChunkingConfigManager._validate_strategy_config: a copy, corrected
validate_strategy_config(strategy_name, strategy_config) ==
    IF strategy_name = "fixed_size"
    THEN (IF Get(strategy_config, "chunk_size", 1000) < 100
             \/ Get(strategy_config, "chunk_size", 1000) > 8192
          THEN ("chunk_size" :> 1000) @@ strategy_config
          ELSE strategy_config)
    ELSE IF strategy_name \in {"sliding_langchain", "sliding_unstructured"}
    THEN (IF Get(strategy_config, "chunk_overlap", 200)
                 >= Get(strategy_config, "chunk_size", 1000)
          THEN ("chunk_overlap" :> (Get(strategy_config, "chunk_size", 1000) \div 4))
                   @@ strategy_config
          ELSE strategy_config)
    ELSE IF strategy_name = "semantic"
    THEN (IF Get(strategy_config, "min_chunk_size", 200)
                 >= Get(strategy_config, "max_chunk_size", 2000)
          THEN ("min_chunk_size" :> 200) @@ ("max_chunk_size" :> 2000) @@ strategy_config
          ELSE strategy_config)
    ELSE strategy_config

\* ChunkingConfigManager._validate_config (output_directory left out): the
\* list is replaced when a name has no parameters, and every entry of the
\* strategy_configs dict is replaced by its validated copy
validate_config(h, data) ==
    LET sc == h.outer[data.strategy_configs]
        enabled_strategies == h.lists[data.enabled_strategies]
        valid_strategies == SelectSeq(enabled_strategies, LAMBDA s : s \in DOMAIN sc)
        keys == KeysOf(sc)
        Position(n) == CHOOSE i \in 1..Len(keys) : keys[i] = n
        h1 == IF Len(valid_strategies) # Len(enabled_strategies)
              THEN [h EXCEPT !.lists = Append(@, valid_strategies)]
              ELSE h
    IN  [heap |-> [h1 EXCEPT
                      !.inner = @ \o [i \in 1..Len(keys) |->
                                         validate_strategy_config(keys[i], h.inner[sc[keys[i]]])],
                      !.outer[data.strategy_configs] =
                          [n \in DOMAIN sc |-> Len(h.inner) + Position(n)]],
         data |-> [data EXCEPT !.enabled_strategies =
                                   IF Len(valid_strategies) # Len(enabled_strategies)
                                   THEN Len(h1.lists) ELSE @]]

\* No configuration file
NoCustomConfig == [keys |-> {}, strategy_configs |-> <<>>, enabled_strategies |-> <<>>]

\* ChunkingConfigManager(config_path).load_config() of a new manager.
\* config_data = DEFAULT_CHUNKING_CONFIG.copy() is a shallow copy.
load_config(h, custom) ==
    LET Loaded(v) == [v.heap EXCEPT !.configs = Append(@, from_dict(v.data))]
        Validated(m) == Loaded(validate_config(m.heap, m.data))
    IN  Validated(IF custom.keys # {}
                  THEN merge_configs(h, DEFAULT_CHUNKING_CONFIG, custom)
                  ELSE [heap |-> h, data |-> DEFAULT_CHUNKING_CONFIG])

\* ------------------------------------------------------------------------
\* State
\* ------------------------------------------------------------------------

VARIABLES
    env,            \* the process environment
    config,         \* pipeline.config
    strategies,     \* pipeline._strategies
    calls,          \* <<>> before the first process_document call, then the
                    \* most recent call: <<[doc, requested, results]>>
    counter,        \* the _encoder of a TokenCounter of its own
    counted,        \* <<>>, then its most recent count_tokens call:
                    \* <<[text, ok, val]>> or <<[text, ok, err]>>
    batch_pc,       \* process_documents_batch: "idle", "submit" (in the dict
                    \* comprehension), "collect" (in as_completed), "returned"
    batch_call,     \* its arguments and locals: [documents, requested,
                    \* max_workers_argument, strategies, max_workers, faults]
    batch_start,    \* its loop variable i
    futures,        \* per document of the call: [state |-> "none"] before
                    \* submit, then "pending", "running", "finished"
    yielded,        \* the futures as_completed has yielded, in that order
    batch_results,  \* its local results
    reports,        \* <<>>, then the most recent generate_comparison_report
                    \* call: <<[results, report]>>
    heap            \* the dicts, lists and ChunkingConfig objects of config.py

pipeline_vars == <<env, config, strategies>>

batch_vars == <<batch_pc, batch_call, batch_start, futures, yielded, batch_results>>

vars == <<env, config, strategies, calls, counter, counted, batch_pc, batch_call,
          batch_start, futures, yielded, batch_results, reports, heap>>

NoBatchCall ==
    [documents |-> <<>>, requested |-> None, max_workers_argument |-> 0,
     strategies |-> <<>>, max_workers |-> 0, faults |-> {}]

\* A pipeline as ChunkingPipeline.__init__ leaves it and a TokenCounter as
\* TokenCounter.__init__ leaves it
InitWith(envs, configs) ==
    /\ env \in envs
    /\ config \in configs
    /\ strategies = InitializeStrategies(config, 1, NoStrategies)
    /\ calls = <<>>
    /\ counter = "None"
    /\ counted = <<>>
    /\ batch_pc = "idle"
    /\ batch_call = NoBatchCall
    /\ batch_start = 0
    /\ futures = <<>>
    /\ yielded = <<>>
    /\ batch_results = <<>>
    /\ reports = <<>>
    /\ heap = InitialHeap

Init == InitWith(Envs, Configs)

\* results = pipeline.process_document(doc, requested)
CallProcessDocument(doc, requested) ==
    /\ \E r \in {ProcessDocument(config, env, strategies, doc, requested)} :
          /\ strategies' = r.strategies
          /\ calls' = << [doc |-> doc, requested |-> requested, results |-> r.results] >>
    /\ UNCHANGED <<heap, reports, env, config, counter, counted>>
    /\ UNCHANGED batch_vars

Next == \E doc \in Docs, requested \in Requests : CallProcessDocument(doc, requested)

Spec == Init /\ [][Next]_vars

\* The semantic strategy alone, on long documents as well
SemanticNext ==
    \E doc \in Docs \cup {LongDocument(config)} : CallProcessDocument(doc, Names(<<"semantic">>))

SemanticSpec == InitWith(Envs, Configs \cup {ConfigC}) /\ [][SemanticNext]_vars

\* counter.count_tokens(text)
CallCountTokens(text) ==
    /\ \E r \in {count_tokens(counter, env.tokenizer, text)} :
          /\ counter' = r.st
          /\ counted' = IF r.ok THEN << [text |-> text, ok |-> TRUE, val |-> r.val] >>
                        ELSE << [text |-> text, ok |-> FALSE, err |-> r.err] >>
    /\ UNCHANGED <<heap, reports, env, config, strategies, calls>>
    /\ UNCHANGED batch_vars

TokenNext == \E text \in Texts : CallCountTokens(text)

TokenSpec == Init /\ [][TokenNext]_vars

\* ------------------------------------------------------------------------
\* The strategies one at a time, on documents and configurations at the
\* edges of their contracts
\* ------------------------------------------------------------------------

\* Whitespace only
DocBlank == Document("d6", <<" ", "\n", " ">>, <<>>)

\* No document_id
DocNoId == Document("", <<"a", "b", " ", "c">>, <<>>)

\* One word
DocWord == Document("d7", <<"a", "b">>, <<>>)

\* The elements of the long element documents beyond one window
ExtraElements == 2

Letters ==
    <<"a", "b", "c", "d", "e", "f", "g", "h", "i", "j", "k", "l", "m", "n", "o", "p">>

\* More elements than one window holds, each with a text of its own; the
\* first is a title.  The full text is of four words.
DocManyElements ==
    Document("d8", <<"a", "b", " ", "c", "d", " ", "e", " ", "f", "g">>,
             [k \in 1..(WindowElements + ExtraElements) |->
                 [type |-> IF k = 1 THEN "Title" ELSE "ListItem",
                  text |-> <<Letters[k]>>]])

\* One window of elements without text, then elements with text
DocLateText ==
    Document("d9", <<"y">>,
             [k \in 1..(WindowElements + ExtraElements) |->
                 IF k <= WindowElements THEN [type |-> "Table", text |-> <<>>]
                 ELSE [type |-> "ListItem", text |-> <<Letters[k]>>]])

StrategyDocs ==
    {DocShort, DocEmpty, DocBlank, DocNoId, DocWord, DocElements, DocManyElements,
     DocLateText}

\* Windows of one token / three characters, element windows without grouping
\* and with overlap, a similarity threshold of 0
ConfigD ==
    [enabled_strategies |->
        <<"fixed_size", "sliding_langchain", "sliding_unstructured", "semantic">>,
     strategy_configs |->
        [fixed_size |-> [chunk_size |-> 1, chunk_overlap |-> 0],
         sliding_langchain |-> [chunk_size |-> 3, chunk_overlap |-> 1],
         sliding_unstructured |->
            [max_elements_per_chunk |-> 10, overlap_percentage |-> <<1, 5>>,
             priority_elements |-> {}, respect_boundaries |-> FALSE],
         semantic |-> [similarity_threshold |-> 0, min_chunk_size |-> 2,
                       max_chunk_size |-> 205]],
     batch_size |-> 2, max_workers |-> 2]

\* An overlap of 5% in grouped element windows, a similarity threshold of 1
ConfigE ==
    [enabled_strategies |->
        <<"fixed_size", "sliding_langchain", "sliding_unstructured", "semantic">>,
     strategy_configs |->
        [fixed_size |-> [chunk_size |-> 2, chunk_overlap |-> 1],
         sliding_langchain |-> [chunk_size |-> 4, chunk_overlap |-> 2],
         sliding_unstructured |->
            [max_elements_per_chunk |-> 10, overlap_percentage |-> <<1, 20>>,
             priority_elements |-> {}, respect_boundaries |-> TRUE],
         semantic |-> [similarity_threshold |-> 100, min_chunk_size |-> 2,
                       max_chunk_size |-> 205]],
     batch_size |-> 2, max_workers |-> 2]

\* Parameters the constructors reject: sizes
ConfigInvalidSizes ==
    [enabled_strategies |->
        <<"fixed_size", "sliding_langchain", "sliding_unstructured", "semantic">>,
     strategy_configs |->
        [fixed_size |-> [chunk_size |-> 0, chunk_overlap |-> 0],
         sliding_langchain |-> [chunk_size |-> 5, chunk_overlap |-> 5],
         sliding_unstructured |->
            [max_elements_per_chunk |-> 0, overlap_percentage |-> <<1, 5>>,
             priority_elements |-> {}, respect_boundaries |-> TRUE],
         semantic |-> [similarity_threshold |-> 80, min_chunk_size |-> 2,
                       max_chunk_size |-> 2]],
     batch_size |-> 2, max_workers |-> 2]

\* Parameters the constructors reject: above the range
ConfigInvalidAbove ==
    [enabled_strategies |->
        <<"fixed_size", "sliding_langchain", "sliding_unstructured", "semantic">>,
     strategy_configs |->
        [fixed_size |-> [chunk_size |-> -1, chunk_overlap |-> 0],
         sliding_langchain |-> [chunk_size |-> 3, chunk_overlap |-> 4],
         sliding_unstructured |->
            [max_elements_per_chunk |-> 10, overlap_percentage |-> <<1, 1>>,
             priority_elements |-> {}, respect_boundaries |-> TRUE],
         semantic |-> [similarity_threshold |-> 101, min_chunk_size |-> 2,
                       max_chunk_size |-> 205]],
     batch_size |-> 2, max_workers |-> 2]

\* Parameters the constructors reject: below the range; the two text
\* strategies are valid
ConfigInvalidBelow ==
    [enabled_strategies |->
        <<"sliding_unstructured", "fixed_size", "semantic", "sliding_langchain">>,
     strategy_configs |->
        [fixed_size |-> [chunk_size |-> 3, chunk_overlap |-> 1],
         sliding_langchain |-> [chunk_size |-> 8, chunk_overlap |-> 2],
         sliding_unstructured |->
            [max_elements_per_chunk |-> 10, overlap_percentage |-> <<-1, 5>>,
             priority_elements |-> {}, respect_boundaries |-> TRUE],
         semantic |-> [similarity_threshold |-> -1, min_chunk_size |-> 2,
                       max_chunk_size |-> 205]],
     batch_size |-> 2, max_workers |-> 2]

\* Element windows of at most 5 elements with an overlap of 15%, without
\* grouping
ConfigF ==
    [enabled_strategies |->
        <<"fixed_size", "sliding_langchain", "sliding_unstructured", "semantic">>,
     strategy_configs |->
        [fixed_size |-> [chunk_size |-> 3, chunk_overlap |-> 1],
         sliding_langchain |-> [chunk_size |-> 8, chunk_overlap |-> 2],
         sliding_unstructured |->
            [max_elements_per_chunk |-> 5, overlap_percentage |-> <<3, 20>>,
             priority_elements |-> {}, respect_boundaries |-> FALSE],
         semantic |-> [similarity_threshold |-> 80, min_chunk_size |-> 2,
                       max_chunk_size |-> 205]],
     batch_size |-> 2, max_workers |-> 2]

StrategyConfigs ==
    {ConfigA, ConfigB, ConfigD, ConfigE, ConfigF, ConfigInvalidSizes, ConfigInvalidAbove,
     ConfigInvalidBelow}

\* Nothing optional installed; tokenizer and embedding model working; the
\* delegated token splitter working; every delegated splitter raising
StrategyEnvs ==
    {Env("absent", "absent", NoSplitterRaises),
     Env("ok", "ok", NoSplitterRaises),
     Env("ok", "absent", [NoSplitterRaises EXCEPT !["TokenTextSplitter"] = "returns"]),
     Env("absent", "absent", [c \in SplitterClasses |-> "raises"])}

\* Every available strategy, or one name, known or not
StrategyRequests == {None} \cup {Names(<<a>>) : a \in StrategyRegistry \cup {"bogus"}}

StrategyNext ==
    \E doc \in StrategyDocs, requested \in StrategyRequests :
        CallProcessDocument(doc, requested)

StrategySpec == InitWith(StrategyEnvs, StrategyConfigs) /\ [][StrategyNext]_vars

\* ------------------------------------------------------------------------
\* The two text strategies with their built-in splitters, on every text of
\* up to MaxTextLen characters
\* ------------------------------------------------------------------------

MaxTextLen == 7

TextAlphabet == {"a", "b", " "}

SplitTexts == UNION {[1..n -> TextAlphabet] : n \in 1..MaxTextLen}

SplitDocs == {Document("d1", t, <<>>) : t \in SplitTexts}

SplitConfigs == {ConfigA, ConfigD, ConfigE}

SplitEnvs == {Env("absent", "absent", NoSplitterRaises)}

SplitRequests == {Names(<<"fixed_size", "sliding_langchain">>)}

\* One call in each behaviour: the built-in splitters keep nothing from one
\* call to the next
SplitNext ==
    /\ calls = <<>>
    /\ \E doc \in SplitDocs, requested \in SplitRequests :
           CallProcessDocument(doc, requested)

SplitSpec == InitWith(SplitEnvs, SplitConfigs) /\ [][SplitNext]_vars

\* ------------------------------------------------------------------------
\* Comparison reports over the results of up to MaxReportDocuments documents
\* ------------------------------------------------------------------------

MaxReportDocuments == 2

ReportDocs == {DocShort, DocEmpty, DocWord, DocElements}

\* What a caller asks of process_document for one document of the report
ReportRequests == {None, Names(<<"fixed_size">>), Names(<<"semantic", "sliding_langchain">>)}

\* The lists of up to MaxReportDocuments documents of pairwise distinct ids
ReportDocumentLists ==
    {ds \in UNION {[1..n -> ReportDocs] : n \in 0..MaxReportDocuments} :
        \A i, j \in DOMAIN ds : i # j => ds[i].document_id # ds[j].document_id}

ReportConfigs == {ConfigA, ConfigB, ConfigD}

ReportEnvs == {Env("absent", "absent", NoSplitterRaises), Env("ok", "ok", NoSplitterRaises)}

\* results = {doc.document_id: pipeline.process_document(doc, requested)
\*            for each doc}; report = pipeline.generate_comparison_report(results)
CallGenerateComparisonReport(documents, requests) ==
    /\ \E results \in {[i \in DOMAIN documents |->
                           [document_id |-> documents[i].document_id,
                            results |-> ProcessDocument(config, env, strategies,
                                                        documents[i], requests[i]).results]]} :
          reports' = << [results |-> results,
                         report |-> generate_comparison_report(results)] >>
    /\ UNCHANGED <<heap, env, config, strategies, calls, counter, counted>>
    /\ UNCHANGED batch_vars

\* One call in each behaviour: the report depends on its argument only
ReportNext ==
    /\ reports = <<>>
    /\ heap = InitialHeap
    /\ \E documents \in ReportDocumentLists :
           \E requests \in [DOMAIN documents -> ReportRequests] :
               CallGenerateComparisonReport(documents, requests)

ReportSpec == InitWith(ReportEnvs, ReportConfigs) /\ [][ReportNext]_vars

\* ------------------------------------------------------------------------
\* The element strategy with grouping, on every sequence of up to
\* MaxGroupElements elements
\* ------------------------------------------------------------------------

MaxGroupElements == 4

GroupElementTypes == {"Title", "ListItem", "Table"}

GroupElements == {[type |-> t, text |-> <<"a">>] : t \in GroupElementTypes}

GroupDocs ==
    {Document("d1", <<"a">>, es) :
        es \in UNION {[1..n -> GroupElements] : n \in 0..MaxGroupElements}}

\* No priority types given (the defaults apply), one, or two
GroupPriorities == {{}, {"Title"}, {"Table"}, {"ListItem", "Table"}}

GroupConfigs ==
    {[ConfigA EXCEPT !.strategy_configs.sliding_unstructured.priority_elements = ps] :
        ps \in GroupPriorities}

GroupEnvs == {Env("absent", "absent", NoSplitterRaises)}

\* One call in each behaviour: the grouping depends on its arguments only
GroupNext ==
    /\ calls = <<>>
    /\ \E doc \in GroupDocs : CallProcessDocument(doc, Names(<<"sliding_unstructured">>))

GroupSpec == InitWith(GroupEnvs, GroupConfigs) /\ [][GroupNext]_vars

\* ------------------------------------------------------------------------
\* The semantic strategy with the delegated splitter, on every text of up to
\* MaxSentenceTextLen characters
\* ------------------------------------------------------------------------

MaxSentenceTextLen == 7

SentenceAlphabet == {"a", "b", ".", " "}

SentenceTexts == UNION {[1..n -> SentenceAlphabet] : n \in 1..MaxSentenceTextLen}

SentenceDocs == {Document("d1", t, <<>>) : t \in SentenceTexts}

\* Chunks of 2 to 4 characters
ConfigG ==
    [enabled_strategies |-> <<"semantic">>,
     strategy_configs |->
        [semantic |-> [similarity_threshold |-> 80, min_chunk_size |-> 2,
                       max_chunk_size |-> 4]],
     batch_size |-> 2, max_workers |-> 2]

SentenceConfigs == {ConfigG}

\* The embedding model works; the delegated splitter returns chunks or is
\* not installed
SentenceEnvs ==
    {Env("absent", "ok", [NoSplitterRaises EXCEPT !["SemanticChunker"] = "returns"]),
     Env("absent", "ok", NoSplitterRaises)}

\* One call in each behaviour: the chunks depend on the document only
SentenceNext ==
    /\ calls = <<>>
    /\ \E doc \in SentenceDocs : CallProcessDocument(doc, Names(<<"semantic">>))

SentenceSpec == InitWith(SentenceEnvs, SentenceConfigs) /\ [][SentenceNext]_vars

\* ------------------------------------------------------------------------
\* The fixed-size strategy with its built-in splitter, on every text of up
\* to MaxWords words of one, two or three estimated tokens
\* ------------------------------------------------------------------------

MaxWords == 4

\* Words of 1, 8 and 12 characters
SampleWords ==
    {<<"a">>, [i \in 1..8 |-> "b"], [i \in 1..12 |-> "c"]}

WordTexts ==
    {Join(ws, <<" ">>) : ws \in UNION {[1..n -> SampleWords] : n \in 1..MaxWords}}

WordDocs == {Document("d1", t, <<>>) : t \in WordTexts}

\* chunk_size and chunk_overlap of the fixed-size strategy, all valid
WordSizes == {<<1, 0>>, <<2, 0>>, <<2, 1>>, <<3, 0>>, <<3, 2>>}

WordConfigs ==
    {[ConfigA EXCEPT !.strategy_configs.fixed_size =
                         [chunk_size |-> cs[1], chunk_overlap |-> cs[2]]] :
        cs \in WordSizes}

WordEnvs == {Env("absent", "absent", NoSplitterRaises)}

\* One call in each behaviour: the chunks depend on the document only
WordNext ==
    /\ calls = <<>>
    /\ \E doc \in WordDocs : CallProcessDocument(doc, Names(<<"fixed_size">>))

WordSpec == InitWith(WordEnvs, WordConfigs) /\ [][WordNext]_vars

\* ------------------------------------------------------------------------
\* config.py: configurations obtained, changed by their holders and loaded
\* ------------------------------------------------------------------------

\* The number of ChunkingConfig objects handed out in a behaviour
MaxConfigs == 3

\* The files: none; one that overrides a parameter of a strategy; one that
\* overrides the enabled strategies, naming one without parameters
CustomConfigs ==
    {NoCustomConfig,
     [keys |-> {"strategy_configs"},
      strategy_configs |-> ("fixed_size" :> ("chunk_size" :> 500)),
      enabled_strategies |-> <<>>],
     [keys |-> {"enabled_strategies"}, strategy_configs |-> <<>>,
      enabled_strategies |-> <<"fixed_size", "custom">>]}

\* The values a holder assigns
AssignedValues == {50, 500}

config_frame ==
    <<env, config, strategies, calls, counter, counted, batch_pc, batch_call,
      batch_start, futures, yielded, batch_results, reports>>

\* c = get_default_config()
CallGetDefaultConfig ==
    /\ Len(heap.configs) < MaxConfigs
    /\ heap' = get_default_config(heap)
    /\ UNCHANGED config_frame

\* c = ChunkingConfigManager(path).load_config()
CallLoadConfig(custom) ==
    /\ Len(heap.configs) < MaxConfigs
    /\ heap' = load_config(heap, custom)
    /\ UNCHANGED config_frame

\* c.strategy_configs[name][key] = value, for a configuration c handed out
SetStrategyParameter(c, name, key, value) ==
    /\ c \in DOMAIN heap.configs
    /\ name \in DOMAIN heap.outer[heap.configs[c].strategy_configs]
    /\ heap' = [heap EXCEPT
                   !.inner[heap.outer[heap.configs[c].strategy_configs][name]] =
                       (key :> value) @@ @]
    /\ UNCHANGED config_frame

\* c.enabled_strategies.remove(name)
RemoveEnabledStrategy(c, name) ==
    /\ c \in DOMAIN heap.configs
    /\ \E i \in DOMAIN heap.lists[heap.configs[c].enabled_strategies] :
          heap.lists[heap.configs[c].enabled_strategies][i] = name
    /\ heap' = [heap EXCEPT
                   !.lists[heap.configs[c].enabled_strategies] =
                       SelectSeq(@, LAMBDA n : n # name)]
    /\ UNCHANGED config_frame

LoadsConfig == \E custom \in CustomConfigs : CallLoadConfig(custom)

SetsStrategyParameter ==
    \E c \in 1..MaxConfigs, value \in AssignedValues :
        SetStrategyParameter(c, "fixed_size", "chunk_size", value)

RemovesEnabledStrategy == \E c \in 1..MaxConfigs : RemoveEnabledStrategy(c, "semantic")

ConfigNext ==
    CallGetDefaultConfig \/ LoadsConfig \/ SetsStrategyParameter \/ RemovesEnabledStrategy

ConfigSpec == Init /\ [][ConfigNext]_vars

\* ------------------------------------------------------------------------
\* ChunkingPipeline.process_documents_batch
\* ------------------------------------------------------------------------

\* The environments of the batch runs
BatchEnvs == {Env("absent", "absent", NoSplitterRaises)}

\* _process_document_with_strategies in a worker: the worker's copy of the
\* pipeline builds its strategies again and processes the document
ProcessDocumentWithStrategies(doc, names) ==
    ProcessDocument(config, env, InitializeStrategies(config, 1, strategies), doc,
                    Names(names)).results

\* documents[i:i + batch_size], as positions 1..len(documents)
InBatch(k) == batch_start < k /\ k <= batch_start + config.batch_size

Batch == {k \in 1..Len(batch_call.documents) : InBatch(k)}

WithState(state) == {k \in 1..Len(futures) : futures[k].state = state}

\* A variant of the executor that starts every task at once
WorkerAlwaysFree == TRUE

\* A worker process of the executor is idle
WorkerFree == Cardinality(WithState("running")) < batch_call.max_workers

\* The call, up to the first submit.  faults are the documents whose worker
\* task raises.
CallProcessDocumentsBatch(documents, requested, max_workers, faults) ==
    /\ batch_pc = "idle"
    /\ IF documents = <<>>
       THEN /\ batch_pc' = "returned"
            /\ batch_call' = [NoBatchCall EXCEPT !.requested = requested,
                                                 !.max_workers_argument = max_workers]
            /\ UNCHANGED futures
       ELSE /\ batch_pc' = "submit"
            /\ batch_call' =
                  [documents |-> documents, requested |-> requested,
                   max_workers_argument |-> max_workers,
                   strategies |-> IF requested.given /\ requested.names # <<>>
                                  THEN requested.names ELSE strategies.order,
                   max_workers |-> IF max_workers # 0 THEN max_workers
                                   ELSE config.max_workers,
                   faults |-> faults]
            /\ futures' = [k \in 1..Len(documents) |-> [state |-> "none"]]
    /\ batch_start' = 0
    /\ yielded' = <<>>
    /\ batch_results' = <<>>
    /\ UNCHANGED <<heap, reports, env, config, strategies, calls, counter, counted>>

\* executor.submit for the next document of the batch; after the last one
\* the call enters as_completed
Submit ==
    /\ batch_pc = "submit"
    /\ LET k == CHOOSE k \in Batch : futures[k].state = "none"
                                     /\ \A j \in Batch : j < k => futures[j].state # "none"
       IN  /\ futures' = [futures EXCEPT ![k] = [state |-> "pending"]]
           /\ batch_pc' = IF \A j \in Batch : j <= k THEN "collect" ELSE "submit"
    /\ UNCHANGED <<heap, reports, env, config, strategies, calls, counter, counted, batch_call,
                   batch_start, yielded, batch_results>>

\* A free worker takes the oldest pending task
Start ==
    /\ WithState("pending") # {}
    /\ WorkerFree
    /\ LET k == CHOOSE k \in WithState("pending") : \A j \in WithState("pending") : k <= j
       IN  futures' = [futures EXCEPT ![k] = [state |-> "running"]]
    /\ UNCHANGED <<heap, reports, env, config, strategies, calls, counter, counted, batch_pc,
                   batch_call, batch_start, yielded, batch_results>>

\* A running task ends: it returns the document's results or raises
Finish(k) ==
    /\ k \in WithState("running")
    /\ futures' =
          [futures EXCEPT ![k] =
              IF k \in batch_call.faults THEN [state |-> "finished", ok |-> FALSE]
              ELSE [state |-> "finished", ok |-> TRUE,
                    val |-> ProcessDocumentWithStrategies(batch_call.documents[k],
                                                          batch_call.strategies)]]
    /\ UNCHANGED <<heap, reports, env, config, strategies, calls, counter, counted, batch_pc,
                   batch_call, batch_start, yielded, batch_results>>

\* A variant of the loop body that records nothing for a task that raised
RecordSkippingRaised(results, document, future) ==
    IF future.ok THEN (document.document_id :> future.val) @@ results
    ELSE results

\* A variant of the loop body that keeps the most recent entry only
RecordLatestOnly(results, document, future) ==
    document.document_id :> (IF future.ok THEN future.val ELSE <<>>)

\* The body of the as_completed loop: results after the future of document
\* is handled
RecordResult(results, document, future) ==
    (document.document_id :> (IF future.ok THEN future.val ELSE <<>>)) @@ results

\* as_completed yields a finished future and the loop body records it; after
\* the last future of the batch the executor is shut down and the next batch
\* begins, or the call returns
Collect(k) ==
    /\ batch_pc = "collect"
    /\ k \in WithState("finished") \ ElementsOf(yielded)
    /\ yielded' = Append(yielded, k)
    /\ batch_results' = RecordResult(batch_results, batch_call.documents[k], futures[k])
    /\ IF Batch \subseteq ElementsOf(yielded) \cup {k}
       THEN /\ batch_start' = batch_start + config.batch_size
            /\ batch_pc' = IF batch_start + config.batch_size >= Len(batch_call.documents)
                           THEN "returned" ELSE "submit"
       ELSE UNCHANGED <<batch_start, batch_pc>>
    /\ UNCHANGED <<heap, reports, env, config, strategies, calls, counter, counted, batch_call, futures>>

Call ==
    \E documents \in DocumentLists, requested \in BatchRequests,
       max_workers \in WorkerArguments :
        \E faults \in {{}} \cup {{k} : k \in 1..Len(documents)} :
            CallProcessDocumentsBatch(documents, requested, max_workers, faults)

Finishes == \E k \in 1..Len(futures) : Finish(k)

Collects == \E k \in 1..Len(futures) : Collect(k)

BatchNext == Call \/ Submit \/ Start \/ Finishes \/ Collects

BatchSpec == InitWith(BatchEnvs, Configs) /\ [][BatchNext]_vars

\* Weak fairness of Finishes, WF_vars(Finishes), with ENABLED <<Finishes>>_vars
\* written out as the guard of Finish: some task is running
FinishesFairly ==
    []<>(WithState("running") = {}) \/ []<><<Finishes>>_vars

\* The calling thread runs (Submit, Collects), an idle worker takes a waiting
\* task (Start) and a task that runs ends (Finishes)
BatchFairSpec ==
    /\ BatchSpec
    /\ WF_vars(Submit) /\ WF_vars(Start) /\ WF_vars(Collects)
    /\ FinishesFairly

\* ------------------------------------------------------------------------
\* Properties of process_document
\* ------------------------------------------------------------------------

Called == calls # <<>>

\* The names process_document iterates over, given the pipeline's strategies
RequestedNames(requested, strats) ==
    IF requested.given THEN requested.names ELSE strats.order

Without(names, s) == SelectSeq(names, LAMBDA n : n # s)

\* What the failure of strategy s in the step's call must look like, and what
\* it must leave alone: the results of the other strategies are those of the
\* same call, from the same pipeline state, with s left out of the list.
FailureIsIsolated(call, s) ==
    LET names == RequestedNames(call.requested, strategies)
        raised == ChunkDocument(s, get_strategy_config(config, s), strategies.st[s],
                                env, call.doc)
        without == ProcessDocument(config, env, strategies, call.doc,
                                   Names(Without(names, s))).results
        r == call.results[s]
    IN  /\ r.chunks = <<>>
        /\ r.statistics = [total_chunks |-> 0, avg_chunk_size |-> <<0, 1>>,
                           min_chunk_size |-> 0, max_chunk_size |-> 0,
                           avg_token_count |-> <<0, 1>>, min_token_count |-> 0,
                           max_token_count |-> 0]
        /\ ~raised.ok /\ r.error_message = raised.err
        /\ r.strategy_name = s /\ r.document_id = call.doc.document_id
        /\ \A t \in (ElementsOf(names) \cap ElementsOf(strategies.order)) \ {s} :
              /\ t \in DOMAIN call.results
              /\ t \in DOMAIN without
              /\ call.results[t] = without[t]

\* C1: in every process_document call, a strategy whose chunk_document
\* raises gets a failed result (success false, no chunks, zero statistics,
\* the exception's text as error_message), and every other requested,
\* initialized strategy gets the entry it gets when the failing strategy is
\* not requested.
C1_FailureIsolation ==
    [][\A i \in 1..Len(calls') :
          \A s \in DOMAIN calls'[i].results :
              ~calls'[i].results[s].success => FailureIsIsolated(calls'[i], s)]_vars

\* A call on a valid document in which one strategy failed and another
\* produced chunks
C1_Witness ==
    /\ Called
    /\ validate_document(calls[1].doc)
    /\ \E s, t \in DOMAIN calls[1].results :
          /\ ~calls[1].results[s].success
          /\ calls[1].results[t].success
          /\ calls[1].results[t].chunks # <<>>

\* C3: every result has total_chunks = len(chunks); a failed result has no
\* chunks and total_chunks = 0; with no chunks every size and token
\* statistic is 0.
C3_ResultInvariant ==
    \A i \in 1..Len(calls) : \A s \in DOMAIN calls[i].results :
        LET r == calls[i].results[s]
        IN  /\ ~r.success => r.chunks = <<>> /\ r.statistics.total_chunks = 0
            /\ r.statistics.total_chunks = Len(r.chunks)
            /\ r.chunks = <<>> =>
                  /\ r.statistics.avg_chunk_size = <<0, 1>>
                  /\ r.statistics.min_chunk_size = 0
                  /\ r.statistics.max_chunk_size = 0
                  /\ r.statistics.avg_token_count = <<0, 1>>
                  /\ r.statistics.min_token_count = 0
                  /\ r.statistics.max_token_count = 0

\* One call with a failed result, a result of several chunks and a
\* successful result without chunks
C3_Witness ==
    /\ Called
    /\ \E s, t, u \in DOMAIN calls[1].results :
          /\ ~calls[1].results[s].success
          /\ Len(calls[1].results[t].chunks) >= 2
          /\ calls[1].results[u].success /\ calls[1].results[u].chunks = <<>>

\* The content and token_count of a result's chunks, in order
ContentAndTokens(result) ==
    [k \in 1..Len(result.chunks) |->
        <<result.chunks[k].content, result.chunks[k].token_count>>]

\* C10: after any process_document call, the same call made again on the
\* pipeline as the first call left it gives, for every strategy, the same
\* number of chunks with the same content and token_count in the same order.
C10_SecondCallSameOutput ==
    \A i \in 1..Len(calls) :
        LET again == ProcessDocument(config, env, strategies, calls[i].doc,
                                     calls[i].requested).results
        IN  /\ DOMAIN again = DOMAIN calls[i].results
            /\ \A s \in DOMAIN again :
                  ContentAndTokens(again[s]) = ContentAndTokens(calls[i].results[s])

\* A call that produced chunks with a tokenizer and an embedding model
\* acquired during it, both kept for the next call
C10_Witness ==
    /\ Called
    /\ \E s \in DOMAIN calls[1].results :
          /\ Len(calls[1].results[s].chunks) >= 2
          /\ strategies.st[s].enc = "encoder"
    /\ "semantic" \in DOMAIN calls[1].results
    /\ calls[1].results["semantic"].chunks # <<>>
    /\ strategies.st["semantic"].emb = "model"

\* C7: for a valid semantic strategy and a valid document, an embedding
\* capability that cannot be acquired or whose computation fails never makes
\* the "semantic" result a failed one.
C7_EmbeddingFailureRecovered ==
    \A i \in 1..Len(calls) :
        ( /\ "semantic" \in DOMAIN calls[i].results
          /\ validate_document(calls[i].doc)
          /\ SemanticInit(get_strategy_config(config, "semantic")).ok
          /\ env.embedder \in {"absent", "acquire_fails", "encode_fails"}
          /\ env.tokenizer # "acquire_fails"
          /\ env.splitter = NoSplitterRaises )
        => calls[i].results["semantic"].success

\* The sliding-window-on-text result the semantic fallback is compared with
SlidingWithFallbackParameters(doc) ==
    LET fp == [chunk_size |-> Min(get_strategy_config(config, "semantic").max_chunk_size,
                                  1000),
               chunk_overlap |-> 200]
    IN  IF ~SlidingInit(fp).ok THEN FailedResult("sliding_langchain", doc, SlidingInit(fp).err)
        ELSE BackfillTotalChunks(
                 ProcessDocumentWithStats("sliding_langchain", fp, FreshState, env, doc).result)

C9_CountTokensNeverRaises ==
    \A i \in 1..Len(counted) :
        /\ counted[i].ok
        /\ env.tokenizer # "ok" =>
              /\ counted[i].val >= 0
              /\ counted[i].val = WordCountEstimate(counted[i].text)

\* ------------------------------------------------------------------------
\* Properties of process_documents_batch
\* ------------------------------------------------------------------------

DocumentIds(documents) == {documents[k].document_id : k \in 1..Len(documents)}

\* The documents of the call have pairwise distinct document_id
DistinctIds ==
    \A j, k \in 1..Len(batch_call.documents) :
        j # k => batch_call.documents[j].document_id # batch_call.documents[k].document_id

\* What the worker task of the call's k-th document ends with, as the loop
\* body records it: its strategy-to-result map, or the empty map if it raises
TaskOutcome(k) ==
    IF k \in batch_call.faults THEN <<>>
    ELSE ProcessDocumentWithStrategies(batch_call.documents[k], batch_call.strategies)

\* Every document of the call has its task's outcome as the entry under its
\* document_id, and there are as many entries as documents
EveryDocumentRecorded ==
    /\ DOMAIN batch_results = DocumentIds(batch_call.documents)
    /\ Cardinality(DOMAIN batch_results) = Len(batch_call.documents)
    /\ \A k \in 1..Len(batch_call.documents) :
          batch_results[batch_call.documents[k].document_id] = TaskOutcome(k)

\* C4, as stated: every call leads to the return with every document recorded.
C4_EveryDocumentRecorded ==
    (batch_pc = "submit") ~> (batch_pc = "returned" /\ EveryDocumentRecorded)

\* C4: a call on documents with pairwise distinct document_id eventually
\* returns, and then every document has exactly one entry under its
\* document_id: its worker's strategy-to-result map if the task returned, the
\* empty map if it raised.  A task that raises neither aborts the call nor
\* keeps the documents of its batch or of later batches from being recorded.
C4_DistinctDocumentsRecorded ==
    (batch_pc = "submit" /\ DistinctIds)
        ~> (batch_pc = "returned" /\ EveryDocumentRecorded)

\* A returned call of several batches in which a task of the first batch
\* raised, with every document recorded
C4_Witness ==
    /\ batch_pc = "returned"
    /\ DistinctIds
    /\ Len(batch_call.documents) > config.batch_size
    /\ \E k \in batch_call.faults : k <= config.batch_size
    /\ EveryDocumentRecorded
    /\ \E k \in 1..Len(batch_call.documents) :
          batch_results[batch_call.documents[k].document_id] # <<>>

\* The results of the loop body applied to the futures of documents[k..],
\* that is, when as_completed yields them in submission order
RECURSIVE RecordInOrder(_, _)
RecordInOrder(k, results) ==
    IF k > Len(batch_call.documents) THEN results
    ELSE RecordInOrder(k + 1,
             RecordResult(results, batch_call.documents[k],
                          IF k \in batch_call.faults THEN [state |-> "finished", ok |-> FALSE]
                          ELSE [state |-> "finished", ok |-> TRUE,
                                val |-> ProcessDocumentWithStrategies(
                                            batch_call.documents[k],
                                            batch_call.strategies)]))

\* C5, as stated: whatever the documents, the returned mapping is the one of
\* the completion order that follows the submission order.
C5_OrderIrrelevant ==
    batch_pc = "returned" => batch_results = RecordInOrder(1, <<>>)

\* C5: for documents with pairwise distinct document_id the returned mapping
\* is the same for every order in which the tasks of a batch complete: it is
\* the mapping of the completion order that follows the submission order.
C5_OrderIrrelevantForDistinctIds ==
    (batch_pc = "returned" /\ DistinctIds) => batch_results = RecordInOrder(1, <<>>)

\* A returned call whose futures were yielded out of submission order and
\* whose documents did not all end alike
C5_Witness ==
    /\ batch_pc = "returned"
    /\ DistinctIds
    /\ \E i \in 1..(Len(yielded) - 1) : yielded[i] > yielded[i + 1]
    /\ \E j, k \in 1..Len(batch_call.documents) : TaskOutcome(j) # TaskOutcome(k)
    /\ batch_results = RecordInOrder(1, <<>>)

\* The call's documents without those of an empty full_text
NonEmptyDocuments == SelectSeq(batch_call.documents, LAMBDA d : d.full_text # <<>>)

\* What process_documents_batch returns for documents when no task raises and
\* the ids are distinct: an entry per document, made by its worker
RECURSIVE BatchReturn(_, _, _)
BatchReturn(documents, names, k) ==
    IF k > Len(documents) THEN <<>>
    ELSE (documents[k].document_id :> ProcessDocumentWithStrategies(documents[k], names))
             @@ BatchReturn(documents, names, k + 1)

\* The call the batch claims are about: returned, distinct ids, no task
\* raised, one document with an empty full_text
ReturnedWithEmptyDocument ==
    /\ batch_pc = "returned"
    /\ DistinctIds
    /\ batch_call.faults = {}
    /\ \E k \in 1..Len(batch_call.documents) : batch_call.documents[k].full_text = <<>>

\* One entry per document, and the entries of the documents with text are
\* those of the call without the empty document
OthersUnaffected ==
    /\ DOMAIN batch_results = DocumentIds(batch_call.documents)
    /\ Cardinality(DOMAIN batch_results) = Len(batch_call.documents)
    /\ \A k \in 1..Len(batch_call.documents) :
          batch_call.documents[k].full_text # <<>> =>
              batch_results[batch_call.documents[k].document_id] =
                  BatchReturn(NonEmptyDocuments, batch_call.strategies, 1)
                      [batch_call.documents[k].document_id]

\* The entry of every empty document holds exactly the names, each with a
\* failed result
EmptyDocumentFailsFor(names) ==
    \A k \in 1..Len(batch_call.documents) :
        batch_call.documents[k].full_text = <<>> =>
            /\ DOMAIN batch_results[batch_call.documents[k].document_id] = names
            /\ \A s \in names :
                  ~batch_results[batch_call.documents[k].document_id][s].success

BatchOf(k) == (k - 1) \div config.batch_size

\* C6: at every moment of a call at most max_workers tasks are executing (the
\* argument, or config.max_workers when it is not given), at most batch_size
\* tasks are submitted and not completed, and a document is submitted only
\* when every task of the batches before its own has completed.
C6_BoundedParallelism ==
    /\ Cardinality(WithState("running")) <=
          (IF batch_call.max_workers_argument # 0 THEN batch_call.max_workers_argument
           ELSE config.max_workers)
    /\ Cardinality(WithState("pending") \cup WithState("running")) <= config.batch_size
    /\ \A j, k \in 1..Len(futures) :
          (BatchOf(j) < BatchOf(k) /\ futures[k].state # "none")
              => futures[j].state = "finished"

\* Every worker is busy, a submitted task waits for one, and a document of
\* the next batch is not submitted yet
C6_Witness ==
    /\ Cardinality(WithState("running")) = batch_call.max_workers
    /\ WithState("pending") # {}
    /\ \E k \in WithState("none") : BatchOf(k) > 0

\* ------------------------------------------------------------------------
\* Properties of the chunks of a result
\* ------------------------------------------------------------------------

\* The strategy-to-result map of the latest process_document call
ResultsOfCall == IF Called THEN calls[1].results ELSE <<>>

\* P(strategy name, position from 0, chunk) for every chunk of that map
EveryChunk(P(_, _, _)) ==
    \A s \in DOMAIN ResultsOfCall :
        \A k \in 1..Len(ResultsOfCall[s].chunks) : P(s, k - 1, ResultsOfCall[s].chunks[k])

\* C11: whatever the strategy and the path taken (delegated splitter,
\* built-in splitter, element windows, fallback to another strategy), the
\* content of every returned chunk is non-empty after stripping whitespace.
C11_ContentNeverBlank == EveryChunk(LAMBDA s, i, c : Strip(c.content) # <<>>)

\* The same on the paths that do not go through a delegated splitter
ContentNeverBlankBuiltIn ==
    (\A c \in SplitterClasses : env.splitter[c] # "returns") => C11_ContentNeverBlank

\* A successful result of the latest call that holds at least n chunks
SomeResultWith(n) ==
    \E s \in DOMAIN ResultsOfCall :
        ResultsOfCall[s].success /\ Len(ResultsOfCall[s].chunks) >= n

\* C12: in every successful result stored under strategy name S for document
\* D, the chunk at position i of the list has document_id D, strategy_name S,
\* metadata chunk_index i and chunk_id "D_S_" followed by i zero-padded to
\* three digits, also when a window is skipped for having no text.
C12_ChunkIdentityByPosition ==
    Called =>
        EveryChunk(LAMBDA s, i, c :
            /\ c.document_id = calls[1].doc.document_id
            /\ c.strategy_name = s
            /\ c.metadata["chunk_index"] = i
            /\ c.chunk_id = generate_chunk_id(s, calls[1].doc.document_id, i))

\* The same, for every path but the element windows taken without grouping
ChunkIdentityOutsideDirectMode ==
    Called =>
        EveryChunk(LAMBDA s, i, c :
            (s = "sliding_unstructured" /\ calls[1].doc.elements # <<>>
                 /\ ~get_strategy_config(config, s).respect_boundaries)
            \/ /\ c.document_id = calls[1].doc.document_id
               /\ c.strategy_name = s
               /\ c.metadata["chunk_index"] = i
               /\ c.chunk_id = generate_chunk_id(s, calls[1].doc.document_id, i))

\* C13: after process_document returns, for every result in the returned map
\* and every chunk of that result, the chunk's metadata contains chunk_index
\* and its metadata total_chunks equals the length of that result's chunk
\* list.
C13_TotalChunksBackfilled ==
    EveryChunk(LAMBDA s, i, c :
        /\ "chunk_index" \in DOMAIN c.metadata
        /\ "total_chunks" \in DOMAIN c.metadata
        /\ c.metadata["total_chunks"] = Len(ResultsOfCall[s].chunks))

\* process_document has returned a result that holds two chunks or more
C13_Witness == Called /\ SomeResultWith(2)

ListedAsInvalid(name, p) ==
    CASE name = "fixed_size" -> p.chunk_size <= 0
      [] name = "sliding_langchain" -> p.chunk_overlap >= p.chunk_size
      [] name = "sliding_unstructured" ->
            \/ p.overlap_percentage[1] < 0
            \/ p.overlap_percentage[1] >= p.overlap_percentage[2]
            \/ p.max_elements_per_chunk <= 0
      [] name = "semantic" ->
            \/ p.similarity_threshold < 0
            \/ p.similarity_threshold > 100
            \/ p.min_chunk_size >= p.max_chunk_size

\* C15: invalid strategy parameters are rejected when the strategy object is
\* constructed, never later at chunking time: constructing fixed-size with
\* chunk_size <= 0, sliding-window-on-text with chunk_overlap >= chunk_size,
\* sliding-window-on-elements with overlap_percentage outside [0,1) or a
\* non-positive window size, or semantic with similarity_threshold outside
\* [0,1] or min_chunk_size >= max_chunk_size raises an error and no strategy
\* object is produced, so that no call ever runs the strategy.
C15_InvalidParametersRejectedAtConstruction ==
    \A name \in StrategyRegistry :
        ListedAsInvalid(name, get_strategy_config(config, name)) =>
            /\ ~ConstructStrategy(config, name).ok
            /\ name \notin ElementsOf(strategies.order)
            /\ name \notin DOMAIN strategies.st
            /\ name \notin DOMAIN ResultsOfCall

\* process_document has been asked for a strategy whose parameters are
\* invalid, in a pipeline where each of the four strategies is in turn
\* configured with invalid parameters
C15_Witness ==
    /\ Called /\ calls[1].requested.given
    /\ \E name \in ElementsOf(calls[1].requested.names) :
           /\ name \in ElementsOf(config.enabled_strategies)
           /\ ListedAsInvalid(name, get_strategy_config(config, name))
    /\ \A name \in StrategyRegistry :
           ListedAsInvalid(name, get_strategy_config(config, name))

\* The enabled strategy names whose construction succeeds, in the configured
\* order
Constructible == SelectSeq(config.enabled_strategies, LAMBDA n : ConstructStrategy(config, n).ok)

\* C16: a configuration error (or an unknown strategy name) for one enabled
\* strategy affects only that strategy: every other enabled strategy whose
\* construction succeeds is available afterwards, in the configured order;
\* the failed strategy is absent from get_available_strategies and
\* process_document returns no entry for it.
C16_FailedConstructionIsIsolated ==
    /\ strategies.order = Constructible
    /\ DOMAIN strategies.st = ElementsOf(Constructible)
    /\ \A n \in ElementsOf(config.enabled_strategies) :
           ~ConstructStrategy(config, n).ok =>
               ~InSeq(n, strategies.order) /\ n \notin DOMAIN ResultsOfCall
    /\ Called =>
           DOMAIN ResultsOfCall =
               IF calls[1].requested.given
               THEN ElementsOf(calls[1].requested.names) \cap ElementsOf(Constructible)
               ELSE ElementsOf(Constructible)

\* process_document has run every available strategy of a pipeline in which
\* an unknown name and a configuration error each precede, in the configured
\* order, a strategy that was constructed and has returned a result
C16_Witness ==
    /\ Called /\ ~calls[1].requested.given
    /\ \E i, j, k \in DOMAIN config.enabled_strategies :
           /\ i < k /\ j < k
           /\ config.enabled_strategies[i] \notin StrategyRegistry
           /\ config.enabled_strategies[j] \in StrategyRegistry
           /\ ~ConstructStrategy(config, config.enabled_strategies[j]).ok
           /\ config.enabled_strategies[k] \in DOMAIN ResultsOfCall

\* full_text empty or whitespace-only, or document_id empty
Unprocessable(doc) == Strip(doc.full_text) = <<>> \/ doc.document_id = ""

\* C17: for each of the four strategies, chunk_document on a document whose
\* full_text is empty or whitespace-only, or whose document_id is empty,
\* raises a ChunkingError that carries the strategy's name and the document's
\* id, before any splitting is attempted (the strategy object is left as it
\* was, also where every delegated splitter would raise); through the
\* pipeline this becomes a result with success=false and a non-empty
\* error_message.
C17_InvalidDocumentRaisesChunkingError ==
    (Called /\ Unprocessable(calls[1].doc)) =>
        \A name \in ElementsOf(strategies.order) :
            LET Raises(r) ==
                    /\ ~r.ok
                    /\ r.err = <<"Document validation failed for ",
                                 calls[1].doc.document_id>>
                    /\ r.strategy_name = name
                    /\ r.document_id = calls[1].doc.document_id
                    /\ r.st = strategies.st[name]
            IN  /\ Raises(ChunkDocument(name, get_strategy_config(config, name),
                                        strategies.st[name], env, calls[1].doc))
                /\ name \in DOMAIN ResultsOfCall =>
                       /\ ~ResultsOfCall[name].success
                       /\ ResultsOfCall[name].error_message # <<>>
                       /\ ResultsOfCall[name].chunks = <<>>

\* process_document has run the four strategies on a document without an id
C17_Witness ==
    /\ Called /\ calls[1].doc.document_id = "" /\ Strip(calls[1].doc.full_text) # <<>>
    /\ DOMAIN ResultsOfCall = StrategyRegistry
    /\ \A name \in StrategyRegistry : ~ResultsOfCall[name].success

\* The same for a document of whitespace only, where every delegated
\* splitter would raise
WhitespaceOnlyRejected ==
    /\ Called /\ calls[1].doc.full_text # <<>> /\ Strip(calls[1].doc.full_text) = <<>>
    /\ \A c \in SplitterClasses : env.splitter[c] = "raises"
    /\ DOMAIN ResultsOfCall = StrategyRegistry
    /\ \A name \in StrategyRegistry : ~ResultsOfCall[name].success

\* The cleaned text of the latest call's document fits one window of the
\* fixed-size splitter in use: tokens of the tokenizer for the delegated
\* splitter, estimated tokens of the words for the built-in one
FitsOneWindow ==
    LET text == clean_text(calls[1].doc.full_text)
        p == get_strategy_config(config, "fixed_size")
    IN  /\ validate_document(calls[1].doc)
        /\ IF env.splitter["TokenTextSplitter"] = "returns"
           THEN EncodeLen(text) <= p.chunk_size
           ELSE /\ env.splitter["TokenTextSplitter"] = "absent"
                /\ SumWordTokens(Split(text)) <= p.chunk_size

\* For the fixed-size strategy, a text shorter than one window yields
\* exactly one chunk
OneWindowGivesOneChunk ==
    (Called /\ "fixed_size" \in DOMAIN ResultsOfCall /\ FitsOneWindow) =>
        /\ ResultsOfCall["fixed_size"].success
        /\ Len(ResultsOfCall["fixed_size"].chunks) = 1

\* The fixed-size strategy has chunked a text that fits one window
OneWindowChunked == Called /\ "fixed_size" \in DOMAIN ResultsOfCall /\ FitsOneWindow

\* C18: for the fixed-size strategy, a document whose text is empty yields an
\* empty chunk list and is not an error: the result has success=true with
\* zero chunks; and a text shorter than one window yields exactly one chunk.
C18_EmptyTextIsNotAnError ==
    /\ (Called /\ "fixed_size" \in DOMAIN ResultsOfCall /\ calls[1].doc.full_text = <<>>) =>
           /\ ResultsOfCall["fixed_size"].success
           /\ ResultsOfCall["fixed_size"].chunks = <<>>
    /\ OneWindowGivesOneChunk

\* The characters of a text that are not whitespace, in order
Solid(text) == SelectSeq(text, LAMBDA c : ~IsSpace(c))

\* units[i..] reproduce rest when each chunk gives up the leading units, at
\* most overlap of them, that are the trailing units of the chunk before it
RECURSIVE Covers(_, _, _, _)
Covers(units, overlap, i, rest) ==
    IF i > Len(units) THEN rest = <<>>
    ELSE \E s \in 0..(IF i = 1 THEN 0
                      ELSE Min(overlap, Min(Len(units[i]), Len(units[i - 1])))) :
             LET fresh == SubSeq(units[i], s + 1, Len(units[i]))
             IN  /\ \/ s = 0
                    \/ SubSeq(units[i], 1, s)
                           = SubSeq(units[i - 1], Len(units[i - 1]) - s + 1,
                                    Len(units[i - 1]))
                 /\ Len(fresh) <= Len(rest)
                 /\ SubSeq(rest, 1, Len(fresh)) = fresh
                 /\ Covers(units, overlap, i + 1,
                           SubSeq(rest, Len(fresh) + 1, Len(rest)))

\* The contents of the chunks of the result stored under name
ContentsOf(name) ==
    [k \in 1..Len(ResultsOfCall[name].chunks) |-> ResultsOfCall[name].chunks[k].content]

\* The built-in splitter of the strategy called name has produced a
\* successful result in the latest call
BuiltInSplit(name, class) ==
    /\ Called /\ name \in DOMAIN ResultsOfCall
    /\ ResultsOfCall[name].success
    /\ env.splitter[class] = "absent"

\* C19: for the fixed-size strategy and the sliding-window-on-text strategy
\* (built-in splitters), concatenating the chunk contents in order after
\* removing from each chunk the part it shares with the previous one
\* reproduces the cleaned source text up to whitespace: the words of the text
\* for the fixed-size strategy, whose chunks are made of whole words, and the
\* non-whitespace characters of the text for the sliding window, whose chunks
\* are windows of characters.  Nothing is lost and nothing is duplicated.
C19_ChunksCoverTheText ==
    /\ BuiltInSplit("fixed_size", "TokenTextSplitter") =>
           Covers([k \in DOMAIN ContentsOf("fixed_size") |->
                       Split(ContentsOf("fixed_size")[k])],
                  get_strategy_config(config, "fixed_size").chunk_overlap, 1,
                  Split(clean_text(calls[1].doc.full_text)))
    /\ BuiltInSplit("sliding_langchain", "RecursiveCharacterTextSplitter") =>
           Covers([k \in DOMAIN ContentsOf("sliding_langchain") |->
                       Solid(ContentsOf("sliding_langchain")[k])],
                  get_strategy_config(config, "sliding_langchain").chunk_overlap, 1,
                  Solid(clean_text(calls[1].doc.full_text)))

\* Both built-in splitters have cut one text into three chunks or more, with
\* a configured overlap
C19_Witness ==
    /\ BuiltInSplit("fixed_size", "TokenTextSplitter")
    /\ BuiltInSplit("sliding_langchain", "RecursiveCharacterTextSplitter")
    /\ Len(ResultsOfCall["fixed_size"].chunks) >= 3
    /\ Len(ResultsOfCall["sliding_langchain"].chunks) >= 3
    /\ get_strategy_config(config, "fixed_size").chunk_overlap > 0
    /\ get_strategy_config(config, "sliding_langchain").chunk_overlap > 0

\* The last n items of a are the first n items of b
Shares(a, b, n) ==
    /\ n <= Len(a) /\ n <= Len(b)
    /\ SubSeq(a, Len(a) - n + 1, Len(a)) = SubSeq(b, 1, n)

\* The windows start at 0, each starts after the one before it, and the last
\* ends at the end of the n items
CursorAdvances(windows, n) ==
    /\ windows # <<>>
    /\ windows[1][1] = 0
    /\ windows[Len(windows)][2] = n
    /\ \A k \in 1..(Len(windows) - 1) : windows[k][1] < windows[k + 1][1]
    /\ \A k \in 1..Len(windows) : windows[k][1] < windows[k][2] \/ n = 0

\* The windows of the built-in text splitter over the cleaned text of the
\* latest call's document
TextWindows ==
    SlidingWindows(clean_text(calls[1].doc.full_text),
                   get_strategy_config(config, "sliding_langchain").chunk_size,
                   get_strategy_config(config, "sliding_langchain").chunk_overlap, 0, <<>>)

\* The element strategy has windowed the elements of the latest call's
\* document
ElementsWindowed ==
    /\ Called /\ "sliding_unstructured" \in DOMAIN ResultsOfCall
    /\ ResultsOfCall["sliding_unstructured"].success
    /\ calls[1].doc.elements # <<>>

\* The element sequences that the element strategy windows: the groups, or
\* the whole list
WindowedSequences ==
    IF get_strategy_config(config, "sliding_unstructured").respect_boundaries
    THEN group_elements_by_priority(
             calls[1].doc.elements,
             get_strategy_config(config, "sliding_unstructured").priority_elements)
    ELSE <<calls[1].doc.elements>>

\* The element lists of the windows of one sequence that have text, in order
WindowsWithText(seq, pct) ==
    SelectSeq([k \in DOMAIN calculate_overlap_positions(seq, pct) |->
                  Slice(seq, calculate_overlap_positions(seq, pct)[k][1],
                        calculate_overlap_positions(seq, pct)[k][2])],
              LAMBDA es : Strip(extract_text_from_elements(es)) # <<>>)

RECURSIVE Flatten(_)
Flatten(seqs) == IF seqs = <<>> THEN <<>> ELSE Head(seqs) \o Flatten(Tail(seqs))

Reported == reports # <<>>

\* The items of the reported results that hold a result of strategy s
ResultsOf(s) ==
    {i \in DOMAIN reports[1].results : s \in DOMAIN reports[1].results[i].results}

SuccessesOf(s) == {i \in ResultsOf(s) : reports[1].results[i].results[s].success}

RECURSIVE ChunksIn(_, _)
ChunksIn(s, items) ==
    IF items = {} THEN 0
    ELSE LET i == CHOOSE i \in items : TRUE
         IN  Len(reports[1].results[i].results[s].chunks) + ChunksIn(s, items \ {i})

\* What C21 says of every report but avg_chunks_per_document: an empty
\* report for empty input; otherwise success_rate, total_chunks and
\* total_documents_processed as stated, failed results holding no chunks
ReportCounts ==
    Reported =>
        IF reports[1].results = <<>> THEN DOMAIN reports[1].report = {}
        ELSE /\ reports[1].report.total_documents_processed = Len(reports[1].results)
             /\ DOMAIN reports[1].report.strategy_performance = StrategiesIn(reports[1].results)
             /\ \A s \in StrategiesIn(reports[1].results) :
                    LET perf == reports[1].report.strategy_performance[s]
                    IN  /\ perf.success_rate
                               = Ratio(Cardinality(SuccessesOf(s)), Cardinality(ResultsOf(s)))
                        /\ perf.total_chunks = ChunksIn(s, ResultsOf(s))
                        /\ ChunksIn(s, ResultsOf(s) \ SuccessesOf(s)) = 0

\* C21 as stated: generate_comparison_report returns an empty report for
\* empty input and otherwise, for every strategy that appears in the results:
\* success_rate = successes / results; total_chunks = the sum of the chunk
\* counts of its results; avg_chunks_per_document = total_chunks divided by
\* the number of documents processed with that strategy; and
\* total_documents_processed = the number of documents in the input.
C21_AverageOverProcessedDocuments ==
    /\ ReportCounts
    /\ (Reported /\ reports[1].results # <<>>) =>
           \A s \in StrategiesIn(reports[1].results) :
               reports[1].report.strategy_performance[s].avg_chunks_per_document
                   = Ratio(ChunksIn(s, ResultsOf(s)), Cardinality(ResultsOf(s)))

\* C21: the same, but avg_chunks_per_document = total_chunks divided by the
\* number of successful results of that strategy, and 0 when it has none:
\* a failed result counts in success_rate and not in the average.
C21_AverageOverSuccessfulDocuments ==
    /\ ReportCounts
    /\ (Reported /\ reports[1].results # <<>>) =>
           \A s \in StrategiesIn(reports[1].results) :
               reports[1].report.strategy_performance[s].avg_chunks_per_document
                   = IF SuccessesOf(s) = {} THEN <<0, 1>>
                     ELSE Ratio(ChunksIn(s, ResultsOf(s)), Cardinality(SuccessesOf(s)))

\* A report over two documents in which one strategy succeeded on one and
\* failed on the other, and another strategy has a result for one document
\* only
C21_Witness ==
    /\ Reported /\ Len(reports[1].results) = 2
    /\ \E s \in StrategiesIn(reports[1].results) :
           /\ Cardinality(ResultsOf(s)) = 2
           /\ Cardinality(SuccessesOf(s)) = 1
           /\ ChunksIn(s, ResultsOf(s)) > 0
    /\ \E s \in StrategiesIn(reports[1].results) : Cardinality(ResultsOf(s)) = 1

\* The report of no results at all
EmptyInputReported == Reported /\ reports[1].results = <<>>

\* count_tokens has returned for a text while the tokenizer is not installed
CountedWithoutTokenizer == counted # <<>> /\ env.tokenizer = "absent" /\ counted[1].ok

\* C22 as stated: when the tokenizer capability is unavailable,
\* count_tokens(text) equals round(word_count * 0.75) for every text, where
\* word_count is the number of whitespace-separated words of the text.
C22_EstimateIsRounded ==
    (counted # <<>> /\ env.tokenizer = "absent") =>
        /\ counted[1].ok
        /\ counted[1].val = PyRound(Len(Split(counted[1].text)) * 3, 4)

\* C22: when the tokenizer capability is unavailable, count_tokens(text)
\* equals word_count * 0.75 rounded down (int() truncates), where word_count
\* is the number of whitespace-separated words of the text.  It is
\* round(word_count * 0.75) when word_count is a multiple of 4 or one less
\* than a multiple of 4, and one below it when word_count is one more than a
\* multiple of 4: 0 for a text of one word.
C22_EstimateIsTruncated ==
    (counted # <<>> /\ env.tokenizer = "absent") =>
        LET word_count == Len(Split(counted[1].text))
        IN  /\ counted[1].ok
            /\ counted[1].val = (word_count * 3) \div 4
            /\ word_count % 4 \in {0, 3} => counted[1].val = PyRound(word_count * 3, 4)
            /\ word_count % 4 = 1 => counted[1].val = PyRound(word_count * 3, 4) - 1
            /\ word_count = 1 => counted[1].val = 0

\* The fallback has counted a text of one word
C22_Witness == CountedWithoutTokenizer /\ Len(Split(counted[1].text)) = 1

\* The fallback has counted a text whose estimate needs no rounding
ExactEstimateCounted ==
    CountedWithoutTokenizer /\ Len(Split(counted[1].text)) > 0
        /\ Len(Split(counted[1].text)) % 4 = 0

\* The configuration of the element strategy
ElementConfig == get_strategy_config(config, "sliding_unstructured")

\* Every element of a sequence of n elements lies in one of the windows
EveryElementWindowed(windows, n) ==
    \A e \in 0..(n - 1) : \E k \in DOMAIN windows : windows[k][1] <= e /\ e < windows[k][2]

\* Within each windowed sequence (a group, or the whole element sequence in
\* direct mode), consecutive windows share an element or more and every
\* element lies in a window
WindowsShareAndCover ==
    ElementsWindowed =>
        \A g \in DOMAIN WindowedSequences :
            LET w == calculate_overlap_positions(WindowedSequences[g],
                                                 ElementConfig.overlap_percentage)
            IN  /\ EveryElementWindowed(w, Len(WindowedSequences[g]))
                /\ \A k \in 1..(Len(w) - 1) : w[k][2] - w[k + 1][1] >= 1

\* C23: in the sliding-window-on-elements strategy, within each group (or
\* over the whole element sequence in direct mode), each window holds
\* window_size consecutive elements except possibly the last, and the start
\* of each next window is the previous start plus window_size -
\* round(window_size * overlap_percentage), with at least 1 element shared
\* between consecutive windows, where window_size is the configured
\* max_elements_per_chunk; every element of the group lies in at least one
\* window.
C23_WindowsOfConfiguredSize ==
    /\ WindowsShareAndCover
    /\ ElementsWindowed =>
           \A g \in DOMAIN WindowedSequences :
               LET w == calculate_overlap_positions(WindowedSequences[g],
                                                    ElementConfig.overlap_percentage)
                   window_size == ElementConfig.max_elements_per_chunk
                   pct == ElementConfig.overlap_percentage
               IN  /\ \A k \in 1..(Len(w) - 1) :
                          /\ w[k][2] - w[k][1] = window_size
                          /\ w[k + 1][1] = w[k][1] + window_size
                                 - Max(1, PyRound(window_size * pct[1], pct[2]))
                   /\ w[Len(w)][2] - w[Len(w)][1] <= window_size

\* C25: in both modes of the sliding-window-on-elements strategy, for every
\* valid configuration (overlap_percentage = 0 included) and every element
\* sequence, every emitted chunk is built from at most max_elements_per_chunk
\* elements (its metadata element_count <= max_elements_per_chunk).
C25_ChunkWithinConfiguredWindow ==
    ElementsWindowed =>
        \A k \in DOMAIN ResultsOfCall["sliding_unstructured"].chunks :
            LET c == ResultsOfCall["sliding_unstructured"].chunks[k]
            IN  /\ c.metadata["element_count"] = Len(c.elements)
                /\ c.metadata["element_count"] <= ElementConfig.max_elements_per_chunk

\* Every emitted chunk is built from at most WindowElements elements when
\* overlap_percentage > 0, whatever max_elements_per_chunk says
ChunkWithinBuiltInWindow ==
    (ElementsWindowed /\ ElementConfig.overlap_percentage[1] > 0) =>
        \A k \in DOMAIN ResultsOfCall["sliding_unstructured"].chunks :
            ResultsOfCall["sliding_unstructured"].chunks[k].metadata["element_count"]
                <= WindowElements

\* The groups of the elements of the latest call's document
GroupsOfCall ==
    group_elements_by_priority(calls[1].doc.elements, ElementConfig.priority_elements)

\* The priority types in force: the configured ones, the defaults when none
\* is configured
PriorityTypes ==
    IF ElementConfig.priority_elements = {} THEN {"Title", "Header", "NarrativeText"}
    ELSE ElementConfig.priority_elements

\* C24: group_elements_by_priority, for every element sequence and every set
\* of priority types, returns groups that are all non-empty, whose
\* concatenation in order is exactly the input sequence, and in which every
\* priority-type element is the first element of its group: no group
\* contains a priority-type element at any position other than the first.
\* The strategy's chunks are made group by group.
C24_GroupsPartitionAtPriorityElements ==
    Called =>
        /\ \A g \in DOMAIN GroupsOfCall : GroupsOfCall[g] # <<>>
        /\ Flatten(GroupsOfCall) = calls[1].doc.elements
        /\ \A g \in DOMAIN GroupsOfCall :
               \A k \in 2..Len(GroupsOfCall[g]) :
                   GroupsOfCall[g][k].type \notin PriorityTypes
        /\ \A g \in 2..Len(GroupsOfCall) : GroupsOfCall[g][1].type \in PriorityTypes
        /\ (ElementsWindowed /\ ElementConfig.respect_boundaries
                /\ \A g \in DOMAIN GroupsOfCall : Len(GroupsOfCall[g]) <= WindowElements
                /\ \A e \in DOMAIN calls[1].doc.elements :
                       Strip(calls[1].doc.elements[e].text) # <<>>) =>
               [k \in DOMAIN ResultsOfCall["sliding_unstructured"].chunks |->
                   ResultsOfCall["sliding_unstructured"].chunks[k].elements] = GroupsOfCall

\* The strategy has grouped a sequence that begins with a priority element,
\* holds another one later and ends with elements of other types
C24_Witness ==
    /\ ElementsWindowed /\ ElementConfig.respect_boundaries
    /\ Len(GroupsOfCall) >= 2
    /\ calls[1].doc.elements[1].type \in PriorityTypes
    /\ Len(GroupsOfCall[Len(GroupsOfCall)]) >= 2

\* ------------------------------------------------------------------------
\* Properties of the lazily acquired clients
\* ------------------------------------------------------------------------

\* C26: over any sequence of operations in one process the tokenizer client
\* and the embedding client are each constructed at most once and then
\* reused, and an acquisition that failed is remembered as "unavailable" and
\* not attempted again: once count_tokens has been called, the counter holds
\* the client or the mark that stands for "unavailable", so that no later
\* call acquires again.
C26_AcquisitionOutcomeKept == counted # <<>> => counter \in {"encoder", "fallback"}

\* What a counter holds is never replaced: the client, or the mark of a
\* missing library, is reused by every later call
CounterClientReused == [][counter # "None" => counter' = counter]_vars

\* The same for the clients of the strategies of a pipeline
StrategyClientsReused ==
    [][\A s \in DOMAIN strategies.st :
          /\ strategies.st[s].enc # "None" => strategies'.st[s].enc = strategies.st[s].enc
          /\ strategies.st[s].emb # "None" => strategies'.st[s].emb = strategies.st[s].emb]_vars

\* A pipeline call leaves the tokenizer of one of its strategies unacquired
\* although the strategy was run: the next call acquires again
AcquisitionRepeatedByStrategy ==
    /\ Called
    /\ validate_document(calls[1].doc)
    /\ env.tokenizer = "acquire_fails"
    /\ \E s \in DOMAIN calls[1].results : strategies.st[s].enc = "None"

\* ------------------------------------------------------------------------
\* Properties of the semantic strategy's size filter
\* ------------------------------------------------------------------------

\* The semantic chunks of the latest call, made by the delegated splitter
\* and the size filter
SizeFilteredChunks ==
    IF /\ Called
       /\ "semantic" \in DOMAIN ResultsOfCall
       /\ ResultsOfCall["semantic"].success
       /\ env.splitter["SemanticChunker"] = "returns"
       /\ env.embedder \in {"ok", "encode_fails"}
    THEN ResultsOfCall["semantic"].chunks ELSE <<>>

\* C27: after the semantic strategy's size post-processing every chunk of the
\* returned list has length <= max_chunk_size, except a chunk that consists
\* of one single sentence longer than max_chunk_size; in particular a merge
\* never leaves a chunk above max_chunk_size.
C27_ChunksWithinMaxSize ==
    \A k \in DOMAIN SizeFilteredChunks :
        \/ Len(SizeFilteredChunks[k].content) <= get_strategy_config(config, "semantic").max_chunk_size
        \/ Len(SplitIntoSentences(SizeFilteredChunks[k].content)) = 1

\* The chunks the delegated splitter returned for the latest call's text
DelegatedChunks ==
    IF SizeFilteredChunks = <<>> THEN <<>>
    ELSE LangChainSplitText(get_strategy_config(config, "semantic"),
                            clean_text(calls[1].doc.full_text))

\* The re-split alone: every piece of a chunk above max_chunk_size is within
\* max_chunk_size or is one sentence of that chunk
ResplitWithinMaxSize ==
    \A k \in DOMAIN DelegatedChunks :
        Len(DelegatedChunks[k]) > get_strategy_config(config, "semantic").max_chunk_size =>
            \A piece \in ElementsOf(SplitLargeChunk(get_strategy_config(config, "semantic"),
                                                    DelegatedChunks[k])) :
                \/ Len(piece) <= get_strategy_config(config, "semantic").max_chunk_size
                \/ piece \in ElementsOf(SplitIntoSentences(DelegatedChunks[k]))

\* Without a merge, the chunks are within max_chunk_size plus the spaces
\* that join their sentences, or one sentence
UnmergedWithinMaxSizeAndSpaces ==
    \A k \in DOMAIN SizeFilteredChunks :
        \/ InSeq("\n", SizeFilteredChunks[k].content)
        \/ Len(Solid(SizeFilteredChunks[k].content))
               <= get_strategy_config(config, "semantic").max_chunk_size
        \/ \E d \in DOMAIN DelegatedChunks :
               SizeFilteredChunks[k].content \in ElementsOf(SplitIntoSentences(DelegatedChunks[d]))

\* ------------------------------------------------------------------------
\* Properties of the fixed-size strategy's built-in splitter
\* ------------------------------------------------------------------------

\* The words of each fixed-size chunk of the latest call, made by the
\* built-in splitter
FixedChunkWords ==
    IF BuiltInSplit("fixed_size", "TokenTextSplitter")
    THEN [k \in DOMAIN ContentsOf("fixed_size") |-> Split(ContentsOf("fixed_size")[k])]
    ELSE <<>>

FixedConfig == get_strategy_config(config, "fixed_size")

\* Every chunk's estimated token total is within chunk_size, or the chunk is
\* one word above chunk_size
WithinChunkSize ==
    \A k \in DOMAIN FixedChunkWords :
        \/ SumWordTokens(FixedChunkWords[k]) <= FixedConfig.chunk_size
        \/ /\ Len(FixedChunkWords[k]) = 1
           /\ WordTokens(FixedChunkWords[k][1]) > FixedConfig.chunk_size

\* C28: in FixedSizeChunker's built-in word-based splitter, for every text
\* and every valid configuration, every emitted chunk has an estimated token
\* total (the sum over its words of max(1, len(word) // 4)) of at most
\* chunk_size, except a chunk made of a single word whose own estimate
\* exceeds chunk_size; with chunk_overlap = 0 consecutive chunks share no
\* word: the chunks' words, in order, are the words of the text.
C28_ChunksWithinChunkSize ==
    /\ WithinChunkSize
    /\ (FixedChunkWords # <<>> /\ FixedConfig.chunk_overlap = 0) =>
           Flatten(FixedChunkWords) = Split(clean_text(calls[1].doc.full_text))

\* The claim holds where chunk_overlap = 0
WithinChunkSizeWithoutOverlap ==
    FixedConfig.chunk_overlap = 0 => C28_ChunksWithinChunkSize

\* With an overlap, a chunk of several words above chunk_size is made of the
\* words carried over from the chunk before it and one more word
AboveChunkSizeByCarriedWords ==
    \A k \in DOMAIN FixedChunkWords :
        \/ SumWordTokens(FixedChunkWords[k]) <= FixedConfig.chunk_size
        \/ Len(FixedChunkWords[k]) = 1
        \/ /\ k > 1
           /\ FixedConfig.chunk_overlap > 0
           /\ SubSeq(FixedChunkWords[k], 1, Len(FixedChunkWords[k]) - 1)
                  = LastN(FixedChunkWords[k - 1], FixedConfig.chunk_overlap)

\* ------------------------------------------------------------------------
\* Properties of the default configuration
\* ------------------------------------------------------------------------

\* What get_default_config would return now, by value
DefaultView ==
    [enabled_strategies |-> heap.lists[DEFAULT_CHUNKING_CONFIG.enabled_strategies],
     strategy_configs |->
        [n \in DOMAIN heap.outer[DEFAULT_CHUNKING_CONFIG.strategy_configs] |->
            heap.inner[heap.outer[DEFAULT_CHUNKING_CONFIG.strategy_configs][n]]]]

OriginalDefault ==
    [enabled_strategies |-> ConfigNames,
     strategy_configs |->
        [n \in {ConfigNames[i] : i \in 1..Len(ConfigNames)} |->
            DefaultParameters[CHOOSE i \in 1..Len(ConfigNames) : ConfigNames[i] = n]]]

\* The parameter dicts a configuration reaches
ParameterDictsOf(c) ==
    {heap.outer[heap.configs[c].strategy_configs][n] :
        n \in DOMAIN heap.outer[heap.configs[c].strategy_configs]}

\* Two configurations that hold one list, one dict or one parameter dict
SharedState(a, b) ==
    \/ heap.configs[a].enabled_strategies = heap.configs[b].enabled_strategies
    \/ heap.configs[a].strategy_configs = heap.configs[b].strategy_configs
    \/ ParameterDictsOf(a) \cap ParameterDictsOf(b) # {}

\* C29: the process-wide default configuration is never changed by using it:
\* after any sequence of get_default_config() calls, mutations of the
\* strategy_configs or enabled_strategies of a returned ChunkingConfig, and
\* load_config() calls that merge user overrides, a later
\* get_default_config() still returns the original default strategy
\* parameters, and two configs obtained separately share no mutable state.
C29_DefaultConfigNeverChanged ==
    /\ DefaultView = OriginalDefault
    /\ \A a, b \in DOMAIN heap.configs : a # b => ~SharedState(a, b)

\* The default parameters alone: changed by an assignment through a returned
\* configuration, or by a load that merges an override
DefaultParametersKept == DefaultView.strategy_configs = OriginalDefault.strategy_configs

\* ------------------------------------------------------------------------
\* Properties of the chunk positions
\* ------------------------------------------------------------------------

TextStrategies == {"fixed_size", "sliding_langchain", "semantic"}

\* C30: for every chunk emitted by the fixed-size, sliding-window-on-text and
\* semantic strategies, on every document and valid configuration,
\* 0 <= start_position <= end_position holds, also when the offset is an
\* index-based estimate rather than the result of a substring search.
C30_PositionsOrdered ==
    EveryChunk(LAMBDA s, i, c :
        s \in TextStrategies =>
            0 <= c.start_position /\ c.start_position <= c.end_position)

\* The start is never negative, and the fixed-size strategy, which does not
\* clip the end to the text, keeps start and end in order
C30_StartNotNegative ==
    EveryChunk(LAMBDA s, i, c :
        s \in TextStrategies =>
            /\ 0 <= c.start_position
            /\ s = "fixed_size" => c.end_position = c.start_position + Len(c.content))


\* The same for the semantic strategy's own split, without the delegated
\* splitter
PositionsOrderedBuiltIn ==
    BuiltInSplit("semantic", "SemanticChunker") => C30_PositionsOrdered
====
